---- MODULE Spec2Model ----
(***************************************************************************)
(* Model of the legal-corpus indexing pipeline:                            *)
(*   - the two indexing orchestrators, USCodeIndexer (uscode_indexer.py)   *)
(*     and UCCIndexer (ucc_indexer.py), as one state machine whose steps   *)
(*     are the suspension points of a run (one backend call or one fetch   *)
(*     per step), specification Spec (one call on a fresh instance) and    *)
(*     SpecRuns (successive calls on one instance);                        *)
(*   - the two rate-limited fetch clients, GovInfoClient                   *)
(*     (govinfo_client.py) and UCCFetcher (ucc_fetcher.py), with a         *)
(*     discrete clock, specification SpecFetch;                            *)
(*   - a run that the host process may interrupt, SpecInterrupt, and the   *)
(*     job-creating operations, SpecJobs;                                  *)
(*   - a run for one selected unit, SpecOneUnit;                           *)
(*   - the limiter of a fetch client under concurrent callers,             *)
(*     SpecLimiter;                                                        *)
(*   - the pure functions of the content processors (uscode_processor.py,  *)
(*     ucc_processor.py, the parsing of ucc_fetcher.py), specification     *)
(*     SpecProc;                                                           *)
(*   - the routes of the chat service (parlant_service.py), SpecChat.      *)
(* Backend Store answers, network answers and parser failures are the      *)
(* environment: every step draws them from small sets.                     *)
(***************************************************************************)
EXTENDS Integers, Sequences, FiniteSets, TLC

VARIABLES
    \* ---- orchestrator instance (USCodeIndexer / UCCIndexer) ----
    corpus,          \* "uscode" or "ucc": which orchestrator class the instance is
    pc,              \* position of the single thread of control of the run
    runs,            \* number of start_full_indexing calls made on the instance
    selector,        \* title_number / article_number argument, 0 for None
    current_job_id,  \* self.current_job_id, 0 for None
    stats,           \* self.stats
    todo,            \* titles_to_process / articles_to_process
    idx,             \* 1-based position in todo (enumerate's i + 1)
    unitSecs,        \* sections of the unit in hand: those fetched, then those whose extraction succeeded
    unitDivs,        \* number of chapters/parts the processor found in the unit in hand
    didx,            \* position in processed_title.chapters
    sidx,            \* position in unitSecs
    session,         \* UCCFetcher.session: "none", "open" or "closed"
    cache,           \* locators held in UCCFetcher._cache
    \* ---- what the Backend Store and the caller observe ----
    statusLog,       \* per job id, the statuses pushed to the store, in order
    exc,             \* kind of the exception in flight or raised to the caller
    enumFailed,      \* the enumeration call of this run failed
    unitStarted,     \* the unit loop of this run has begun work on a unit
    stored,          \* positions of todo whose store routine returned normally
    faults,          \* positions where the environment made fetch/process/store fail
    skipped,         \* positions whose content the source does not have (not found)
    failedUnits,     \* positions whose processing raised into the unit loop
    unitLog,         \* create calls issued for the unit in hand, in order
    secCreated,      \* sections of the unit in hand whose create call returned success
    childFailed,     \* a child-record create of the unit in hand was answered with a failure
    errAtUnit,       \* stats.errors when the unit in hand was started
    lastResp,        \* answer to the backend call made by the last step, "none" if no call
    backendFaults,   \* backend calls of this run that were not answered with success
    unit_id,         \* title_id / article_id of the store routine in hand, NoId before the create
    section_id,      \* section_id of the section in hand, NoId before the create
    idLog,           \* per entry of unitLog: the parent id the call sent; for a unit or section create, the id its answer carried
    \* ---- fetch client instance (GovInfoClient / UCCFetcher) ----
    client,          \* "govinfo" or "ucc"
    now,             \* clock (time.time() / datetime.now())
    request_times,   \* self._request_times
    cache_ttl,       \* self._cache_ttl: locator -> expiry time, 0 when absent
    issued,          \* times of the network requests sent in the window that ends now
    written,         \* per locator, time of the last cache write, -1 if never
    lastFetch,       \* what the last fetch operation did
    \* ---- locals of the store routine in hand ----
    to_section_id,   \* _store_cross_reference_data's to_section_id: "none" or "id"
    cross_ref_data,  \* the cross-reference record sent for the section in hand
    \* ---- content processors (USCodeProcessor / UCCProcessor / UCCFetcher parsing) ----
    proc_in,         \* the arguments of the processor function called
    proc_out,        \* what the function returned, NoOutput before the call
    \* ---- chat service (FamilyPortalAI) ----
    parlant_client,  \* self.parlant_client: "none" or "ready"
    served,          \* number of requests the service has answered
    chat_request,    \* the last request received
    chat_response,   \* the answer to it
    \* ---- concurrent callers of one fetch client's _enforce_rate_limit ----
    caller_pc,       \* per caller: "idle", "waiting" for the lock, "sleeping" with the lock held
    rate_limit_lock, \* self._rate_limit_lock: 0 when free, else the caller that holds it
    wake,            \* per caller, the time at which its asyncio.sleep ends
    oldest_seen,     \* per caller, the oldest timestamp of the full window it found, -1 if none
    last_issue       \* the request sent last through the limiter: who, when, after which wait

orchVars == <<corpus, pc, runs, selector, current_job_id, stats, todo, idx, unitSecs,
              unitDivs, didx, sidx, session, cache, statusLog, exc, enumFailed, unitStarted, stored,
              faults, skipped, failedUnits, unitLog, secCreated, childFailed, errAtUnit,
              lastResp, backendFaults, unit_id, section_id, idLog>>
fetchVars == <<client, now, request_times, cache_ttl, issued, written, lastFetch>>
callVars == <<to_section_id, cross_ref_data>>
procVars == <<proc_in, proc_out>>
chatVars == <<parlant_client, served, chat_request, chat_response>>
limVars == <<caller_pc, rate_limit_lock, wake, oldest_seen, last_issue>>
vars == <<orchVars, fetchVars, callVars, procVars, chatVars, limVars>>

(***************************************************************************)
(* Bounds of the model.                                                    *)
(***************************************************************************)
\* number of top-level units the corpus has (range(1, 55) and the twelve
\* entries of ucc_articles, scaled down)
MaxUnits == 2
\* sections a unit holds
MaxSections == 2
\* chapters a title holds
MaxChapters == 1
\* start_full_indexing calls made on one indexer instance
MaxRuns == 2
\* backend calls of one run that the store does not answer with success
MaxBackendFaults == 1

\* the ceiling of the sliding window (RATE_LIMIT_CALLS: 1000 for the statute
\* API, 30 for the scraped pages), scaled down
RATE_LIMIT_CALLS == 2
\* the length of the sliding window in clock ticks (RATE_LIMIT_PERIOD: 3600 s
\* and 60 s), scaled down
RATE_LIMIT_PERIOD == 3
\* the time a cache entry lives, in clock ticks (self.cache_duration: 1 h and
\* 6 h), scaled down
cache_duration == 2
\* the clock stops here
MaxTime == 6
\* network requests one client instance sends within one window
MaxRequests == 4

Units == 1..MaxUnits
Sections == 1..MaxSections
\* the locators a fetch client is asked for: a package endpoint or page URL,
\* and another one
Locators == {"locator", "other"}

(***************************************************************************)
(* Helpers.                                                                *)
(***************************************************************************)
RECURSIVE SortedSeq(_)
\* sorted(list(title_numbers))
SortedSeq(S) ==
    IF S = {} THEN <<>>
    ELSE LET m == CHOOSE x \in S : \A y \in S : x <= y
         IN <<m>> \o SortedSeq(S \ {m})

\* the subsequence of 1..n whose members are in S, in ascending order
Surviving(S) == SortedSeq(S)

\* Answers to one backend call: 2xx with success true, 2xx with success
\* false, status >= 400, transport exception.
BackendOutcomes == {"ok", "nosuccess", "http", "exc"}

\* `response and response.get('success')`
Success(o) == o = "ok"

\* the answers the store can still give in this run
Answers == IF backendFaults < MaxBackendFaults THEN BackendOutcomes ELSE {"ok"}

\* the step made a backend call that was answered with o
Answer(o) ==
    /\ lastResp' = o
    /\ backendFaults' = IF Success(o) THEN backendFaults ELSE backendFaults + 1

\* the step made no backend call
NoCall ==
    /\ lastResp' = "none"
    /\ UNCHANGED backendFaults

ZeroStats == [units |-> 0, divs |-> 0, secs |-> 0, subs |-> 0, defs |-> 0,
              xrefs |-> 0, errors |-> 0, total |-> 0, failed |-> 0]

\* A status update for job j reaches the store's job endpoint. The log keeps
\* the order of the statuses; a status repeated in a row is kept once.
Push(log, j, s) ==
    IF j = 0 \/ (log[j] # <<>> /\ log[j][Len(log[j])] = s) THEN log
    ELSE [log EXCEPT ![j] = Append(@, s)]

\* no identifier (None)
NoId == <<>>

\* the id the Backend Store gives the record it creates for entry n of kind
\* `kind` of unit u; the orchestrator knows it only from the answer
StoreId(kind, u, n) == <<kind, u, n>>

\* the id an answer carries: that of the created record, none without success
answer_id(o, id) == IF Success(o) THEN id ELSE NoId

\* an orchestrator that takes the id it expects the record to have
data_id_assumed(o, id) == StoreId("unit", 0, 0)

\* `response['data']['id']` of an answer with success; no id is read otherwise
data_id(o, id) == IF Success(o) THEN id ELSE NoId

\* the locals of the unit in hand go out of scope
UnitReset ==
    /\ unitSecs' = <<>>
    /\ unitDivs' = 0
    /\ didx' = 1
    /\ sidx' = 1
    /\ unitLog' = <<>>
    /\ secCreated' = {}
    /\ childFailed' = FALSE
    /\ errAtUnit' = 0
    /\ unit_id' = NoId
    /\ section_id' = NoId
    /\ idLog' = <<>>

runGhost == <<enumFailed, unitStarted, stored, faults, skipped, skipped, failedUnits>>
unitGhost == <<unitLog, secCreated, childFailed, errAtUnit, unit_id, section_id, idLog>>
unitVars == <<unitSecs, unitDivs, didx, sidx>>
fetcher == <<session, cache>>
inst == <<corpus, runs, selector, current_job_id>>

\* a new call of start_full_indexing: nothing of an earlier run is observed
RunReset ==
    /\ todo' = <<>>
    /\ idx' = 1
    /\ enumFailed' = FALSE
    /\ unitStarted' = FALSE
    /\ stored' = {}
    /\ faults' = {}
    /\ skipped' = {}
    /\ failedUnits' = {}
    /\ UnitReset

(***************************************************************************)
(* USCodeIndexer.                                                          *)
(***************************************************************************)
\* USCodeIndexer._make_backend_request: returns None on status >= 400 or on
\* an exception, the parsed envelope otherwise; it does not touch self.stats.
USC_make_backend_request(st, o) == st

\* except-clause of _process_title: count the error, re-raise
USC_process_title_except(st) == [st EXCEPT !.errors = @ + 1]

\* except-clause of the title loop of _run_full_indexing: count the error, continue
USC_loop_except(st) == [st EXCEPT !.errors = @ + 1]

\* An exception leaves _process_title and is caught by the title loop.
USC_title_raised(st) ==
    /\ stats' = USC_loop_except(USC_process_title_except(st))
    /\ failedUnits' = failedUnits \cup {idx}
    /\ faults' = faults \cup {idx}
    /\ idx' = idx + 1
    /\ pc' = "loop"
    /\ UnitReset

\* range(1, 55), the standard titles
USC_standard_titles == [i \in 1..MaxUnits |-> i]

\* start_full_indexing up to the call of _run_full_indexing: create the job
USC_create_job(sel) ==
    /\ corpus = "uscode"
    /\ runs < MaxRuns
    /\ runs' = runs + 1
    /\ selector' = sel
    /\ \E o \in BackendOutcomes :
        /\ lastResp' = o
        /\ backendFaults' = IF Success(o) THEN 0 ELSE 1
        /\ stats' = USC_make_backend_request(stats, o)
        /\ IF Success(o)
           THEN /\ current_job_id' = runs + 1
                /\ statusLog' = [statusLog EXCEPT ![runs + 1] = <<"pending">>]
                /\ exc' = "none"
                /\ pc' = "run_start"
           ELSE /\ exc' = "job_create"
                /\ pc' = "start_except"
                /\ UNCHANGED <<current_job_id, statusLog>>
    /\ RunReset
    /\ UNCHANGED <<corpus, fetcher, fetchVars, callVars, procVars, chatVars, limVars>>

\* the first start_full_indexing call on the instance
USC_start_full_indexing(sel) ==
    /\ pc = "idle"
    /\ USC_create_job(sel)

\* a further start_full_indexing call on the instance, after the last returned
USC_start_again(sel) ==
    /\ pc \in {"returned", "raised"}
    /\ USC_create_job(sel)

\* _run_full_indexing, first statement: a fresh IndexingStats
USC_run_full_indexing ==
    /\ corpus = "uscode"
    /\ pc = "run_start"
    /\ stats' = ZeroStats
    /\ NoCall
    /\ pc' = "status_fetching"
    /\ UNCHANGED <<inst, todo, idx, unitVars, fetcher, statusLog, exc, runGhost,
                   unitGhost, fetchVars, callVars, procVars, chatVars, limVars>>

\* _update_job_status('running', fetching_titles)
USC_status_fetching ==
    /\ corpus = "uscode"
    /\ pc = "status_fetching"
    /\ \E o \in Answers :
        /\ Answer(o)
        /\ stats' = USC_make_backend_request(stats, o)
    /\ statusLog' = Push(statusLog, current_job_id, "running")
    /\ pc' = "enumerate"
    /\ UNCHANGED <<inst, todo, idx, unitVars, fetcher, exc, runGhost, unitGhost, fetchVars, callVars, procVars, chatVars, limVars>>

\* `if title_number: titles_to_process = [title_number]`
USC_single_title ==
    /\ corpus = "uscode"
    /\ pc = "enumerate"
    /\ selector # 0
    /\ todo' = <<selector>>
    /\ NoCall
    /\ pc' = "loop"
    /\ UNCHANGED <<inst, stats, idx, unitVars, fetcher, statusLog, exc, runGhost,
                   unitGhost, fetchVars, callVars, procVars, chatVars, limVars>>

\* What govinfo_client.search_packages does: it raises, returns nothing, or
\* returns packages from whose titles the set S of title numbers is parsed.
USC_search_results == {<<"raise", {}>>, <<"empty", {}>>} \cup
                      {<<"packages", S>> : S \in SUBSET Units}

\* a _get_available_titles whose except-clause returns no title at all
USC_available_titles_no_fallback(r) ==
    CASE r[1] \in {"raise", "empty"} -> <<>>
      [] OTHER -> IF r[2] = {} THEN USC_standard_titles ELSE SortedSeq(r[2])

\* _get_available_titles: the list it returns for one answer of the search
USC_available_titles(r) ==
    CASE r[1] = "raise" -> USC_standard_titles
      [] r[1] = "empty" -> <<>>
      [] OTHER -> IF r[2] = {} THEN USC_standard_titles ELSE SortedSeq(r[2])

\* `else: titles_to_process = await self._get_available_titles()`
USC_get_available_titles ==
    /\ corpus = "uscode"
    /\ pc = "enumerate"
    /\ selector = 0
    /\ \E r \in USC_search_results :
        /\ todo' = USC_available_titles(r)
        /\ stats' = [stats EXCEPT !.total = @ + 1,
                                  !.failed = IF r[1] \in {"raise", "empty"} THEN @ + 1 ELSE @]
        /\ enumFailed' = (r[1] = "raise")
    /\ NoCall
    /\ pc' = "loop"
    /\ UNCHANGED <<inst, idx, unitVars, fetcher, statusLog, exc, unitStarted, stored,
                   faults, skipped, failedUnits, unitGhost, fetchVars, callVars, procVars, chatVars, limVars>>

\* head of the title loop: _update_job_status('running', processing_title_N)
USC_status_processing ==
    /\ corpus = "uscode"
    /\ pc = "loop"
    /\ idx <= Len(todo)
    /\ \E o \in Answers :
        /\ Answer(o)
        /\ stats' = USC_make_backend_request(stats, o)
    /\ statusLog' = Push(statusLog, current_job_id, "running")
    /\ errAtUnit' = stats.errors
    /\ unitStarted' = TRUE
    /\ pc' = "fetch"
    /\ UNCHANGED <<inst, todo, idx, unitVars, fetcher, exc, enumFailed, stored, faults, skipped,
                   failedUnits, unitLog, secCreated, childFailed, unit_id, section_id, idLog,
                   fetchVars, callVars, procVars, chatVars, limVars>>

\* _process_title, the fetch: get_title_content returns the title's data,
\* returns None (404 or no XML link), or raises
USC_fetch_title ==
    /\ corpus = "uscode"
    /\ pc = "fetch"
    /\ NoCall
    /\ \E r \in {"data", "none", "raise"} :
        LET st == [stats EXCEPT !.total = @ + 1] IN
        CASE r = "data" ->
                \* the section elements of the XML that carry a section number
                /\ \E E \in SUBSET Sections : unitSecs' = SortedSeq(E)
                /\ stats' = st
                /\ pc' = "process"
                /\ UNCHANGED <<idx, faults, skipped, failedUnits, unitDivs, didx, sidx,
                               unitGhost>>
          [] r = "none" ->
                \* `return` from _process_title; the loop then counts the title
                /\ stats' = [st EXCEPT !.failed = @ + 1, !.units = @ + 1]
                /\ skipped' = skipped \cup {idx}
                /\ pc' = "after_title"
                /\ UNCHANGED <<idx, faults, failedUnits, unitVars, unitGhost>>
          [] OTHER -> /\ USC_title_raised(st)
                      /\ UNCHANGED skipped
    /\ UNCHANGED <<inst, todo, fetcher, statusLog, exc, enumFailed, unitStarted, stored,
                   fetchVars, callVars, procVars, chatVars, limVars>>

\* processor.process_title_xml: raises, or returns the chapters and the
\* sections whose elements could be processed (_extract_all_sections skips
\* the others)
USC_process_title_xml ==
    /\ corpus = "uscode"
    /\ pc = "process"
    /\ NoCall
    /\ \/ USC_title_raised(stats)
       \/ /\ \E S \in SUBSET {unitSecs[i] : i \in 1..Len(unitSecs)}, c \in 0..MaxChapters :
              \* _extract_all_sections: a section whose extraction raises is
              \* logged and left out, nothing is counted
              /\ unitSecs' = Surviving(S)
              /\ unitDivs' = c
          /\ pc' = "store_title"
          /\ UNCHANGED <<stats, idx, faults, failedUnits, didx, sidx, unitGhost>>
    /\ UNCHANGED <<inst, todo, fetcher, statusLog, exc, enumFailed, unitStarted, stored,
                   skipped, fetchVars, callVars, procVars, chatVars, limVars>>

\* _store_title, the title record: POST /api/uscode/titles
USC_store_title ==
    /\ corpus = "uscode"
    /\ pc = "store_title"
    /\ \E o \in Answers :
        /\ Answer(o)
        /\ IF Success(o)
           THEN /\ stats' = USC_make_backend_request(stats, o)
                /\ unitLog' = Append(unitLog, <<"unit", 0>>)
                \* `title_id = title_response['data']['id']`
                /\ unit_id' = data_id(o, StoreId("unit", todo[idx], 0))
                /\ idLog' = Append(idLog, [sent |-> NoId,
                                           got |-> answer_id(o, StoreId("unit", todo[idx], 0))])
                /\ UNCHANGED section_id
                /\ pc' = "store"
                /\ UNCHANGED <<idx, faults, failedUnits, unitVars, secCreated,
                               childFailed, errAtUnit>>
           ELSE USC_title_raised(USC_make_backend_request(stats, o))
    /\ UNCHANGED <<inst, todo, fetcher, statusLog, exc, enumFailed, unitStarted, stored,
                   skipped, fetchVars, callVars, procVars, chatVars, limVars>>

\* _store_title, chapter loop: _store_chapter, whose answer is not inspected
USC_store_chapter ==
    /\ corpus = "uscode"
    /\ pc = "store"
    /\ didx <= unitDivs
    /\ \E o \in Answers :
        /\ Answer(o)
        /\ stats' = [USC_make_backend_request(stats, o) EXCEPT !.divs = @ + 1]
    \* 'titleId': title_id; a chapter is no parent of any record
    /\ idLog' = Append(idLog, [sent |-> unit_id, got |-> NoId])
    /\ UNCHANGED <<unit_id, section_id>>
    /\ unitLog' = Append(unitLog, <<"div", didx>>)
    /\ didx' = didx + 1
    /\ UNCHANGED <<inst, pc, todo, idx, unitSecs, unitDivs, sidx, fetcher, statusLog, exc,
                   runGhost, secCreated, childFailed, errAtUnit, fetchVars, callVars, procVars, chatVars, limVars>>

\* a _store_title that does not wait for its chapter loop
USC_chapters_not_awaited == TRUE

\* _store_title: the chapter loop has run to its end, the section loop follows
USC_chapters_stored == didx > unitDivs

\* _store_section, the section record: POST /api/uscode/sections; without
\* success the section's children are skipped and the loop goes on
USC_store_section ==
    /\ corpus = "uscode"
    /\ pc = "store"
    /\ USC_chapters_stored
    /\ sidx <= Len(unitSecs)
    /\ \E o \in Answers :
        /\ Answer(o)
        /\ IF Success(o)
           THEN /\ stats' = USC_make_backend_request(stats, o)
                /\ secCreated' = secCreated \cup {unitSecs[sidx]}
                \* `section_id = section_response['data']['id']`
                /\ section_id' = data_id(o, StoreId("sec", todo[idx], unitSecs[sidx]))
                /\ pc' = "search_index"
                /\ UNCHANGED sidx
           ELSE /\ stats' = [USC_make_backend_request(stats, o) EXCEPT !.secs = @ + 1]
                /\ sidx' = sidx + 1
                /\ UNCHANGED <<pc, secCreated, section_id>>
        \* 'titleId': title_id
        /\ idLog' = Append(idLog, [sent |-> unit_id,
                                   got |-> answer_id(o, StoreId("sec", todo[idx], unitSecs[sidx]))])
    /\ UNCHANGED unit_id
    /\ unitLog' = Append(unitLog, <<"sec", unitSecs[sidx]>>)
    /\ UNCHANGED <<inst, todo, idx, unitSecs, unitDivs, didx, fetcher, statusLog, exc,
                   runGhost, childFailed, errAtUnit, fetchVars, callVars, procVars, chatVars, limVars>>

\* _create_search_index (its failure is logged only), then the references
\* loop of _store_section: _store_cross_reference logs the reference and
\* calls no backend, so no cross-reference record is sent
USC_create_search_index ==
    /\ corpus = "uscode"
    /\ pc = "search_index"
    /\ \E o \in Answers :
        /\ Answer(o)
        /\ stats' = [USC_make_backend_request(stats, o) EXCEPT !.secs = @ + 1]
        /\ childFailed' = (childFailed \/ ~Success(o))
    \* 'sectionId': section_id; the section's locals go out of scope
    /\ idLog' = Append(idLog, [sent |-> section_id, got |-> NoId])
    /\ section_id' = NoId
    /\ UNCHANGED unit_id
    /\ unitLog' = Append(unitLog, <<"idx", unitSecs[sidx]>>)
    /\ sidx' = sidx + 1
    /\ pc' = "store"
    /\ UNCHANGED <<inst, todo, idx, unitSecs, unitDivs, didx, fetcher, statusLog, exc,
                   runGhost, secCreated, errAtUnit, fetchVars, callVars, procVars, chatVars, limVars>>

\* _store_title and _process_title return; the loop counts the title
USC_title_done ==
    /\ corpus = "uscode"
    /\ pc = "store"
    /\ didx > unitDivs
    /\ sidx > Len(unitSecs)
    /\ stats' = [stats EXCEPT !.units = @ + 1]
    /\ stored' = stored \cup {idx}
    /\ NoCall
    /\ pc' = "after_title"
    /\ UnitReset
    /\ UNCHANGED <<inst, todo, idx, fetcher, statusLog, exc, enumFailed, unitStarted,
                   faults, skipped, failedUnits, fetchVars, callVars, procVars, chatVars, limVars>>

\* _update_job_stats: a PUT to the job's status endpoint with status 'running'
USC_update_job_stats(log, j) == Push(log, j, "running")

\* `if i % 5 == 0: await self._update_job_stats()`, then the next title
USC_after_title ==
    /\ corpus = "uscode"
    /\ pc = "after_title"
    /\ IF (idx - 1) % 5 = 0
       THEN /\ \E o \in Answers :
                /\ Answer(o)
                /\ stats' = USC_make_backend_request(stats, o)
            /\ statusLog' = USC_update_job_stats(statusLog, current_job_id)
       ELSE /\ NoCall
            /\ UNCHANGED <<stats, statusLog>>
    /\ idx' = idx + 1
    /\ pc' = "loop"
    /\ UNCHANGED <<inst, todo, unitVars, fetcher, exc, runGhost, unitGhost, fetchVars, callVars, procVars, chatVars, limVars>>

\* after the loop: _update_job_status('running', finalizing)
USC_status_finalizing ==
    /\ corpus = "uscode"
    /\ pc = "loop"
    /\ idx > Len(todo)
    /\ \E o \in Answers :
        /\ Answer(o)
        /\ stats' = USC_make_backend_request(stats, o)
    /\ statusLog' = Push(statusLog, current_job_id, "running")
    /\ pc' = "finalize_1"
    /\ UNCHANGED <<inst, todo, idx, unitVars, fetcher, exc, runGhost, unitGhost, fetchVars, callVars, procVars, chatVars, limVars>>

\* _finalize_indexing: POST index/rebuild, then POST maintenance/optimize;
\* neither answer is inspected
USC_finalize_indexing ==
    /\ corpus = "uscode"
    /\ pc \in {"finalize_1", "finalize_2"}
    /\ \E o \in Answers :
        /\ Answer(o)
        /\ stats' = USC_make_backend_request(stats, o)
    /\ pc' = IF pc = "finalize_1" THEN "finalize_2" ELSE "complete"
    /\ UNCHANGED <<inst, todo, idx, unitVars, fetcher, statusLog, exc, runGhost,
                   unitGhost, fetchVars, callVars, procVars, chatVars, limVars>>

\* _update_job_status('completed', ...)
USC_status_completed ==
    /\ corpus = "uscode"
    /\ pc = "complete"
    /\ \E o \in Answers :
        /\ Answer(o)
        /\ stats' = USC_make_backend_request(stats, o)
    /\ statusLog' = Push(statusLog, current_job_id, "completed")
    /\ pc' = "final_stats"
    /\ UNCHANGED <<inst, todo, idx, unitVars, fetcher, exc, runGhost, unitGhost, fetchVars, callVars, procVars, chatVars, limVars>>

\* the _update_job_stats() that follows the 'completed' update; then
\* _run_full_indexing and start_full_indexing return the job id
USC_final_stats ==
    /\ corpus = "uscode"
    /\ pc = "final_stats"
    /\ \E o \in Answers :
        /\ Answer(o)
        /\ stats' = USC_make_backend_request(stats, o)
    /\ statusLog' = USC_update_job_stats(statusLog, current_job_id)
    /\ pc' = "returned"
    /\ UNCHANGED <<inst, todo, idx, unitVars, fetcher, exc, runGhost, unitGhost, fetchVars, callVars, procVars, chatVars, limVars>>

\* _update_job_error: a PUT to the job's error endpoint, which marks it failed
USC_update_job_error(log, j) == Push(log, j, "failed")

\* except-clause of start_full_indexing: `if self.current_job_id:` send the
\* error to that job, then re-raise
USC_start_except ==
    /\ corpus = "uscode"
    /\ pc = "start_except"
    /\ IF current_job_id # 0
       THEN /\ \E o \in Answers :
                /\ Answer(o)
                /\ stats' = USC_make_backend_request(stats, o)
            /\ statusLog' = USC_update_job_error(statusLog, current_job_id)
       ELSE /\ NoCall
            /\ UNCHANGED <<stats, statusLog>>
    /\ pc' = "raised"
    /\ UNCHANGED <<inst, todo, idx, unitVars, fetcher, exc, runGhost, unitGhost, fetchVars, callVars, procVars, chatVars, limVars>>

USC_Next ==
    \/ \E sel \in {0} \cup Units : USC_start_full_indexing(sel)
    \/ USC_run_full_indexing
    \/ USC_status_fetching
    \/ USC_single_title
    \/ USC_get_available_titles
    \/ USC_status_processing
    \/ USC_fetch_title
    \/ USC_process_title_xml
    \/ USC_store_title
    \/ USC_store_chapter
    \/ USC_store_section
    \/ USC_create_search_index
    \/ USC_title_done
    \/ USC_after_title
    \/ USC_status_finalizing
    \/ USC_finalize_indexing
    \/ USC_status_completed
    \/ USC_final_stats
    \/ USC_start_except

(***************************************************************************)
(* UCCFetcher as the UCCIndexer uses it: the connection pool and the cache. *)
(***************************************************************************)
\* cache keys: the article list page, an article's page, a section's page
ListLoc == <<0, 0>>
ArticleLoc(u) == <<u, 0>>
SectionLoc(u, s) == <<u, s>>

\* UCCFetcher._ensure_session: a pool is created only when self.session is None
UCC_ensure_session(ses) == IF ses = "none" THEN "open" ELSE ses

\* UCCFetcher.__aexit__: the pool is closed, self.session keeps the closed pool
UCC_aexit(ses) == IF ses = "none" THEN "none" ELSE "closed"

\* UCCFetcher._fetch_url, what it can do for a locator: return the cached
\* content ("hit", possible while the entry's TTL has not run out), get it
\* from the network ("net", which needs an open pool), or raise
UCC_fetch_url(loc, ses, cch) ==
    (IF loc \in cch THEN {"hit"} ELSE {}) \cup
    (IF ses = "open" THEN {"net"} ELSE {}) \cup {"raise"}

(***************************************************************************)
(* UCCIndexer.                                                             *)
(***************************************************************************)
\* UCCIndexer._make_backend_request: counts the call once it is answered,
\* counts a failure on status >= 400 and on an exception
UCC_make_backend_request(st, o) ==
    CASE o = "exc" -> [st EXCEPT !.failed = @ + 1]
      [] o = "http" -> [st EXCEPT !.total = @ + 1, !.failed = @ + 1]
      [] OTHER -> [st EXCEPT !.total = @ + 1]

\* except-clause of the article loop of _run_full_indexing: count the error, continue
UCC_loop_except(st) == [st EXCEPT !.errors = @ + 1]

\* an article loop without its except-clause: the exception leaves the loop
UCC_article_raised_uncaught(st, injected) ==
    /\ stats' = st
    /\ failedUnits' = failedUnits \cup {idx}
    /\ faults' = IF injected THEN faults \cup {idx} ELSE faults
    /\ idx' = idx
    /\ pc' = "run_except"
    /\ UnitReset

\* An exception leaves _process_article (which re-raises without counting)
\* and is caught by the article loop.
UCC_article_raised(st, injected) ==
    /\ stats' = UCC_loop_except(st)
    /\ failedUnits' = failedUnits \cup {idx}
    /\ faults' = IF injected THEN faults \cup {idx} ELSE faults
    /\ idx' = idx + 1
    /\ pc' = "loop"
    /\ UnitReset

\* the articles of self.ucc_articles, in the order of the dict
UCC_known_articles == [i \in 1..MaxUnits |-> i]

\* the article links a fetched list page can hold, in page order
UCC_link_lists == UNION {[1..n -> Units] : n \in 0..MaxUnits}

\* get_article_list, once the page is fetched: one entry per link, the known
\* structure when the page has no link
UCC_article_list(links) == IF links = <<>> THEN UCC_known_articles ELSE links

\* `[a for a in all_articles if a.number == article_number]`
UCC_select(all, sel) ==
    IF sel = 0 THEN all ELSE SelectSeq(all, LAMBDA a : a = sel)

\* the type the processor gives the cross-reference of section s
UCC_reference_type(s) == IF s % 2 = 1 THEN "ucc_section" ELSE "external"

\* the 'external_reference' entry of the cross-reference of section s: the
\* matched text for an external reference; a 'ucc_section' reference has no
\* such entry (its citation is under 'target_citation'), so .get gives None
UCC_external_reference(s) ==
    IF UCC_reference_type(s) = "ucc_section" THEN "none" ELSE "match"

\* no cross-reference record sent
NoRecord == [sent |-> FALSE, toSectionId |-> "none", externalReference |-> "none"]

\* the cross_ref_data dictionary _store_cross_reference_data posts
UCC_cross_ref_data(s, to) ==
    [sent |-> TRUE, toSectionId |-> to, externalReference |-> UCC_external_reference(s)]

\* start_full_indexing up to the call of _run_full_indexing: create the job
UCC_create_job(sel) ==
    /\ corpus = "ucc"
    /\ runs < MaxRuns
    /\ runs' = runs + 1
    /\ selector' = sel
    /\ \E o \in BackendOutcomes :
        /\ lastResp' = o
        /\ backendFaults' = IF Success(o) THEN 0 ELSE 1
        /\ stats' = UCC_make_backend_request(stats, o)
        /\ IF Success(o)
           THEN /\ current_job_id' = runs + 1
                /\ statusLog' = [statusLog EXCEPT ![runs + 1] = <<"pending">>]
                /\ exc' = "none"
                /\ pc' = "run_start"
           ELSE /\ exc' = "job_create"
                /\ pc' = "start_except"
                /\ UNCHANGED <<current_job_id, statusLog>>
    /\ RunReset
    /\ UNCHANGED <<corpus, fetcher, fetchVars, callVars, procVars, chatVars, limVars>>

\* the first start_full_indexing call on the instance
UCC_start_full_indexing(sel) ==
    /\ pc = "idle"
    /\ UCC_create_job(sel)

\* a further start_full_indexing call on the instance, after the last returned
UCC_start_again(sel) ==
    /\ pc \in {"returned", "raised"}
    /\ UCC_create_job(sel)

\* _run_full_indexing, first statement: a fresh UCCIndexingStats
UCC_run_full_indexing ==
    /\ corpus = "ucc"
    /\ pc = "run_start"
    /\ stats' = ZeroStats
    /\ NoCall
    /\ pc' = "status_fetching"
    /\ UNCHANGED <<inst, todo, idx, unitVars, fetcher, statusLog, exc, runGhost,
                   unitGhost, fetchVars, callVars, procVars, chatVars, limVars>>

\* _update_job_status('running', fetching_articles)
UCC_status_fetching ==
    /\ corpus = "ucc"
    /\ pc = "status_fetching"
    /\ \E o \in Answers :
        /\ Answer(o)
        /\ stats' = UCC_make_backend_request(stats, o)
    /\ statusLog' = Push(statusLog, current_job_id, "running")
    /\ pc' = "enumerate"
    /\ UNCHANGED <<inst, todo, idx, unitVars, fetcher, exc, runGhost, unitGhost, fetchVars, callVars, procVars, chatVars, limVars>>

\* `async with self.ucc_fetcher`, get_article_list, the selection; an
\* exception leaves the scope, which closes the pool
UCC_get_article_list ==
    /\ corpus = "ucc"
    /\ pc = "enumerate"
    /\ NoCall
    /\ LET ses == UCC_ensure_session(session) IN
       \E r \in UCC_fetch_url(ListLoc, ses, cache) :
         IF r = "raise"
         THEN /\ exc' = "enum"
              /\ enumFailed' = TRUE
              /\ session' = UCC_aexit(ses)
              /\ pc' = "run_except"
              /\ UNCHANGED <<todo, cache>>
         ELSE \E links \in UCC_link_lists :
              LET sel == UCC_select(UCC_article_list(links), selector) IN
              /\ cache' = cache \cup {ListLoc}
              /\ IF selector # 0 /\ sel = <<>>
                 THEN /\ exc' = "not_found"
                      /\ session' = UCC_aexit(ses)
                      /\ pc' = "run_except"
                      /\ UNCHANGED todo
                 ELSE /\ todo' = sel
                      /\ session' = ses
                      /\ pc' = "loop"
                      /\ UNCHANGED exc
              /\ UNCHANGED enumFailed
    /\ UNCHANGED <<inst, stats, idx, unitVars, statusLog, unitStarted, stored, faults, skipped,
                   failedUnits, unitGhost, fetchVars, callVars, procVars, chatVars, limVars>>

\* head of the article loop: _update_job_status('running', processing_article_N)
UCC_status_processing ==
    /\ corpus = "ucc"
    /\ pc = "loop"
    /\ idx <= Len(todo)
    /\ \E o \in Answers :
        /\ Answer(o)
        /\ stats' = UCC_make_backend_request(stats, o)
    /\ statusLog' = Push(statusLog, current_job_id, "running")
    /\ errAtUnit' = stats.errors
    /\ unitStarted' = TRUE
    /\ pc' = "fetch"
    /\ UNCHANGED <<inst, todo, idx, unitVars, fetcher, exc, enumFailed, stored, faults, skipped,
                   failedUnits, unitLog, secCreated, childFailed, unit_id, section_id, idLog,
                   fetchVars, callVars, procVars, chatVars, limVars>>

\* _process_article, the fetch: `async with self.ucc_fetcher` around
\* fetch_article_sections. The structure page must be fetched; a section
\* whose page cannot be fetched is skipped. Leaving the scope closes the pool.
UCC_fetch_article_sections ==
    /\ corpus = "ucc"
    /\ pc = "fetch"
    /\ NoCall
    /\ LET ses == UCC_ensure_session(session)
           u == todo[idx]
       IN
       /\ session' = UCC_aexit(ses)
       /\ \E r \in UCC_fetch_url(ArticleLoc(u), ses, cache) :
            IF r = "raise"
            THEN /\ UCC_article_raised(stats, ses = "open")
                 /\ UNCHANGED cache
            ELSE \E S \in SUBSET Sections :
                 /\ \A s \in S : UCC_fetch_url(SectionLoc(u, s), ses, cache) # {"raise"}
                 /\ unitSecs' = Surviving(S)
                 /\ cache' = cache \cup {ArticleLoc(u)} \cup {SectionLoc(u, s) : s \in S}
                 /\ pc' = "process"
                 /\ UNCHANGED <<stats, idx, faults, failedUnits, unitDivs, didx, sidx,
                                unitGhost>>
    /\ UNCHANGED <<inst, todo, statusLog, exc, enumFailed, unitStarted, stored,
                   skipped, fetchVars, callVars, procVars, chatVars, limVars>>

\* processor.process_article_content: a section whose processing raises is
\* skipped; article_data carries no 'parts', so the article has no parts
UCC_process_article_content ==
    /\ corpus = "ucc"
    /\ pc = "process"
    /\ NoCall
    \* process_article_content: a section whose process_section_content raises
    \* is logged and left out, nothing is counted
    /\ \E S \in SUBSET {unitSecs[i] : i \in 1..Len(unitSecs)} :
        unitSecs' = Surviving(S)
    /\ unitDivs' = 0
    /\ pc' = "store_article"
    /\ UNCHANGED <<inst, stats, todo, idx, didx, sidx, fetcher, statusLog, exc, runGhost,
                   unitGhost, fetchVars, callVars, procVars, chatVars, limVars>>

\* _store_article_data, the article record: POST /api/ucc/articles
UCC_store_article_data ==
    /\ corpus = "ucc"
    /\ pc = "store_article"
    /\ \E o \in Answers :
        /\ Answer(o)
        /\ IF Success(o)
           THEN /\ stats' = UCC_make_backend_request(stats, o)
                /\ unitLog' = Append(unitLog, <<"unit", 0>>)
                \* `article_id = article_response['data']['id']`
                /\ unit_id' = data_id(o, StoreId("unit", todo[idx], 0))
                /\ idLog' = Append(idLog, [sent |-> NoId,
                                           got |-> answer_id(o, StoreId("unit", todo[idx], 0))])
                /\ UNCHANGED section_id
                /\ pc' = "store"
                /\ UNCHANGED <<idx, faults, failedUnits, unitVars, secCreated,
                               childFailed, errAtUnit>>
           ELSE UCC_article_raised(UCC_make_backend_request(stats, o), TRUE)
    /\ UNCHANGED <<inst, todo, fetcher, statusLog, exc, enumFailed, unitStarted, stored,
                   skipped, fetchVars, callVars, procVars, chatVars, limVars>>

\* _store_section_data, the section record (part_number is never set by the
\* fetcher, so no part lookup is made): POST /api/ucc/sections; without
\* success it raises, and the exception ends the article
UCC_store_section_data ==
    /\ corpus = "ucc"
    /\ pc = "store"
    /\ didx > unitDivs
    /\ sidx <= Len(unitSecs)
    /\ \E o \in Answers :
        /\ Answer(o)
        /\ IF Success(o)
           THEN /\ stats' = UCC_make_backend_request(stats, o)
                /\ unitLog' = Append(unitLog, <<"sec", unitSecs[sidx]>>)
                /\ secCreated' = secCreated \cup {unitSecs[sidx]}
                \* 'articleId': article_id; `section_id = section_response['data']['id']`
                /\ section_id' = data_id(o, StoreId("sec", todo[idx], unitSecs[sidx]))
                /\ idLog' = Append(idLog, [sent |-> unit_id,
                                           got |-> answer_id(o, StoreId("sec", todo[idx], unitSecs[sidx]))])
                /\ UNCHANGED unit_id
                /\ pc' = "sub"
                /\ UNCHANGED <<idx, faults, failedUnits, unitVars, childFailed, errAtUnit>>
           ELSE UCC_article_raised(UCC_make_backend_request(stats, o), TRUE)
    /\ UNCHANGED <<inst, todo, fetcher, statusLog, exc, enumFailed, unitStarted, stored,
                   skipped, fetchVars, callVars, procVars, chatVars, limVars>>

\* a child store that counts an error when its create call fails
UCC_child_call_counting(kind, next) ==
    /\ \E o \in Answers :
        /\ Answer(o)
        /\ stats' = LET st == UCC_make_backend_request(stats, o) IN
                    [st EXCEPT !.errors = IF Success(o) THEN @ ELSE @ + 1]
        /\ childFailed' = (childFailed \/ ~Success(o))
    /\ unitLog' = Append(unitLog, <<kind, unitSecs[sidx]>>)
    \* 'sectionId' / 'fromSectionId': section_id
    /\ idLog' = Append(idLog, [sent |-> section_id, got |-> NoId])
    /\ UNCHANGED <<unit_id, section_id>>
    /\ cross_ref_data' = IF kind = "xref"
                         THEN UCC_cross_ref_data(unitSecs[sidx], to_section_id)
                         ELSE cross_ref_data
    /\ to_section_id' = "none"
    /\ pc' = next
    /\ UNCHANGED <<inst, todo, idx, unitVars, fetcher, statusLog, exc, runGhost,
                   secCreated, errAtUnit, fetchVars, procVars, chatVars, limVars>>

\* a child record's create call: the answer is only logged
UCC_child_call(kind, next) ==
    /\ \E o \in Answers :
        /\ Answer(o)
        /\ stats' = LET st == UCC_make_backend_request(stats, o) IN
                    CASE kind = "sub" -> [st EXCEPT !.subs = @ + 1]
                      [] kind = "def" -> [st EXCEPT !.defs = @ + 1]
                      [] kind = "xref" -> [st EXCEPT !.xrefs = @ + 1]
                      [] OTHER -> st
        /\ childFailed' = (childFailed \/ ~Success(o))
    /\ unitLog' = Append(unitLog, <<kind, unitSecs[sidx]>>)
    \* 'sectionId' / 'fromSectionId': section_id
    /\ idLog' = Append(idLog, [sent |-> section_id, got |-> NoId])
    /\ UNCHANGED <<unit_id, section_id>>
    /\ cross_ref_data' = IF kind = "xref"
                         THEN UCC_cross_ref_data(unitSecs[sidx], to_section_id)
                         ELSE cross_ref_data
    /\ to_section_id' = "none"
    /\ pc' = next
    /\ UNCHANGED <<inst, todo, idx, unitVars, fetcher, statusLog, exc, runGhost,
                   secCreated, errAtUnit, fetchVars, procVars, chatVars, limVars>>

\* _store_subsection_data for the section's subsection
UCC_store_subsection_data ==
    /\ corpus = "ucc"
    /\ pc = "sub"
    /\ UCC_child_call("sub", "def")

\* _store_definition_data for the section's definition
UCC_store_definition_data ==
    /\ corpus = "ucc"
    /\ pc = "def"
    /\ UCC_child_call("def",
           IF UCC_reference_type(unitSecs[sidx]) = "ucc_section" THEN "lookup" ELSE "xref")

\* _store_cross_reference_data, the lookup of the target by citation
UCC_resolve_cross_reference ==
    /\ corpus = "ucc"
    /\ pc = "lookup"
    /\ \E o \in Answers :
        /\ Answer(o)
        /\ stats' = UCC_make_backend_request(stats, o)
        /\ to_section_id' = IF Success(o) THEN "id" ELSE "none"
    /\ pc' = "xref"
    /\ UNCHANGED <<inst, todo, idx, unitVars, fetcher, statusLog, exc, runGhost,
                   unitGhost, fetchVars, cross_ref_data, procVars, chatVars, limVars>>

\* _store_cross_reference_data, the record: POST /api/ucc/cross-references
UCC_store_cross_reference_data ==
    /\ corpus = "ucc"
    /\ pc = "xref"
    /\ UCC_child_call("xref", "idx")

\* _store_search_index_data, then the section is counted
UCC_store_search_index_data ==
    /\ corpus = "ucc"
    /\ pc = "idx"
    /\ \E o \in Answers :
        /\ Answer(o)
        /\ stats' = [UCC_make_backend_request(stats, o) EXCEPT !.secs = @ + 1]
        /\ childFailed' = (childFailed \/ ~Success(o))
    /\ unitLog' = Append(unitLog, <<"idx", unitSecs[sidx]>>)
    \* 'sectionId': section_id; the section's locals go out of scope
    /\ idLog' = Append(idLog, [sent |-> section_id, got |-> NoId])
    /\ section_id' = NoId
    /\ UNCHANGED unit_id
    /\ sidx' = sidx + 1
    /\ cross_ref_data' = NoRecord
    /\ pc' = "store"
    /\ UNCHANGED <<inst, todo, idx, unitSecs, unitDivs, didx, fetcher, statusLog, exc,
                   runGhost, secCreated, errAtUnit, fetchVars, to_section_id, procVars, chatVars, limVars>>

\* _store_article_data and _process_article return; the loop counts the article
UCC_article_done ==
    /\ corpus = "ucc"
    /\ pc = "store"
    /\ didx > unitDivs
    /\ sidx > Len(unitSecs)
    /\ stats' = [stats EXCEPT !.units = @ + 1]
    /\ stored' = stored \cup {idx}
    /\ NoCall
    /\ idx' = idx + 1
    /\ pc' = "loop"
    /\ UnitReset
    /\ UNCHANGED <<inst, todo, fetcher, statusLog, exc, enumFailed, unitStarted,
                   faults, skipped, failedUnits, fetchVars, callVars, procVars, chatVars, limVars>>

\* after the loop the outer `async with` is left (the pool is closed), then
\* _update_job_status('running', finalizing)
UCC_status_finalizing ==
    /\ corpus = "ucc"
    /\ pc = "loop"
    /\ idx > Len(todo)
    /\ session' = UCC_aexit(session)
    /\ \E o \in Answers :
        /\ Answer(o)
        /\ stats' = UCC_make_backend_request(stats, o)
    /\ statusLog' = Push(statusLog, current_job_id, "running")
    /\ pc' = "finalize_1"
    /\ UNCHANGED <<inst, todo, idx, unitVars, cache, exc, runGhost, unitGhost, fetchVars, callVars, procVars, chatVars, limVars>>

\* _finalize_indexing: POST search-index/optimize, then POST stats/update;
\* neither answer is inspected
UCC_finalize_indexing ==
    /\ corpus = "ucc"
    /\ pc \in {"finalize_1", "finalize_2"}
    /\ \E o \in Answers :
        /\ Answer(o)
        /\ stats' = UCC_make_backend_request(stats, o)
    /\ pc' = IF pc = "finalize_1" THEN "finalize_2" ELSE "complete"
    /\ UNCHANGED <<inst, todo, idx, unitVars, fetcher, statusLog, exc, runGhost,
                   unitGhost, fetchVars, callVars, procVars, chatVars, limVars>>

\* _update_job_status('completed', ..., stats); then _run_full_indexing and
\* start_full_indexing return the job id
UCC_status_completed ==
    /\ corpus = "ucc"
    /\ pc = "complete"
    /\ \E o \in Answers :
        /\ Answer(o)
        /\ stats' = UCC_make_backend_request(stats, o)
    /\ statusLog' = Push(statusLog, current_job_id, "completed")
    /\ pc' = "returned"
    /\ UNCHANGED <<inst, todo, idx, unitVars, fetcher, exc, runGhost, unitGhost, fetchVars, callVars, procVars, chatVars, limVars>>

\* _update_job_error: a PUT of status 'failed' with the error message
UCC_update_job_error(log, j) == Push(log, j, "failed")

\* except-clause of _run_full_indexing: `if self.current_job_id:` mark the
\* job failed, then re-raise into start_full_indexing
UCC_run_except ==
    /\ corpus = "ucc"
    /\ pc = "run_except"
    /\ IF current_job_id # 0
       THEN /\ \E o \in Answers :
                /\ Answer(o)
                /\ stats' = UCC_make_backend_request(stats, o)
            /\ statusLog' = UCC_update_job_error(statusLog, current_job_id)
       ELSE /\ NoCall
            /\ UNCHANGED <<stats, statusLog>>
    /\ pc' = "start_except"
    /\ UNCHANGED <<inst, todo, idx, unitVars, fetcher, exc, runGhost, unitGhost, fetchVars, callVars, procVars, chatVars, limVars>>

\* except-clause of start_full_indexing: `if self.current_job_id:` mark the
\* job failed, then re-raise to the caller
UCC_start_except ==
    /\ corpus = "ucc"
    /\ pc = "start_except"
    /\ IF current_job_id # 0
       THEN /\ \E o \in Answers :
                /\ Answer(o)
                /\ stats' = UCC_make_backend_request(stats, o)
            /\ statusLog' = UCC_update_job_error(statusLog, current_job_id)
       ELSE /\ NoCall
            /\ UNCHANGED <<stats, statusLog>>
    /\ pc' = "raised"
    /\ UNCHANGED <<inst, todo, idx, unitVars, fetcher, exc, runGhost, unitGhost, fetchVars, callVars, procVars, chatVars, limVars>>

UCC_Next ==
    \/ \E sel \in {0} \cup Units : UCC_start_full_indexing(sel)
    \/ UCC_run_full_indexing
    \/ UCC_status_fetching
    \/ UCC_get_article_list
    \/ UCC_status_processing
    \/ UCC_fetch_article_sections
    \/ UCC_process_article_content
    \/ UCC_store_article_data
    \/ UCC_store_section_data
    \/ UCC_store_subsection_data
    \/ UCC_store_definition_data
    \/ UCC_resolve_cross_reference
    \/ UCC_store_cross_reference_data
    \/ UCC_store_search_index_data
    \/ UCC_article_done
    \/ UCC_status_finalizing
    \/ UCC_finalize_indexing
    \/ UCC_status_completed
    \/ UCC_run_except
    \/ UCC_start_except


(***************************************************************************)
(* The fetch clients, GovInfoClient and UCCFetcher, used by one caller     *)
(* inside the client's scope (the connection pool is open). Time is a      *)
(* discrete clock; a request is sent at the tick at which the limiter lets *)
(* it pass.                                                                *)
(***************************************************************************)
\* `[t for t in self._request_times if now - t < RATE_LIMIT_PERIOD]`
prune(times, t) == SelectSeq(times, LAMBDA x : t - x < RATE_LIMIT_PERIOD)

\* _enforce_rate_limit, called at time t with the window `times`: the time at
\* which it returns and the window it leaves. At the ceiling it sleeps until
\* the oldest timestamp has left the window, plus one; then it prunes again
\* and records the request.
enforce_rate_limit(times, t) ==
    LET kept == prune(times, t) IN
    IF Len(kept) >= RATE_LIMIT_CALLS
    THEN LET sleep_time == RATE_LIMIT_PERIOD - (t - kept[1]) + 1 IN
         IF sleep_time > 0
         THEN [now |-> t + sleep_time,
               times |-> Append(prune(kept, t + sleep_time), t + sleep_time)]
         ELSE [now |-> t, times |-> Append(kept, t)]
    ELSE [now |-> t, times |-> Append(kept, t)]

\* the requests sent at the times `sent` that lie in the window ending at t
in_window(sent, t) == SelectSeq(sent, LAMBDA x : t - x < RATE_LIMIT_PERIOD)

\* a cache whose entries are still valid at the instant they expire
is_cache_valid_at_expiry(ttl, loc, t) == ttl[loc] # 0 /\ t <= ttl[loc]

\* _is_cache_valid: the key has an entry and `datetime.now() < self._cache_ttl[key]`
is_cache_valid(ttl, loc, t) == ttl[loc] # 0 /\ t < ttl[loc]

\* _cache_response: `self._cache_ttl[key] = datetime.now() + self.cache_duration`
cache_response(ttl, loc, t) == [ttl EXCEPT ![loc] = t + cache_duration]

NoFetch == [op |-> "none", loc |-> "none", use_cache |-> FALSE, status |-> 0,
            result |-> "none"]

\* the HTTP status codes the clients tell apart: success, rate-limited by the
\* server, any other error
Statuses == {200, 429, 500}

\* One rate-limited request for a locator, the body shared by
\* GovInfoClient._make_request and UCCFetcher._fetch_url: a valid cache entry
\* is returned at once; otherwise the limiter is passed, the request is sent
\* and answered (ok: 2xx), and a 2xx answer is cached when use_cache is set.
limited_request(loc, use_cache, ok) ==
    IF use_cache /\ is_cache_valid(cache_ttl, loc, now)
    THEN [hit |-> TRUE, now |-> now, times |-> request_times, issued |-> issued,
          ttl |-> cache_ttl, written |-> written]
    ELSE LET e == enforce_rate_limit(request_times, now) IN
         [hit |-> FALSE, now |-> e.now, times |-> e.times,
          issued |-> Append(in_window(issued, e.now), e.now),
          ttl |-> IF ok /\ use_cache THEN cache_response(cache_ttl, loc, e.now)
                  ELSE cache_ttl,
          written |-> IF ok /\ use_cache THEN [written EXCEPT ![loc] = e.now]
                      ELSE written]

\* time passes
Tick ==
    /\ now < MaxTime
    /\ now' = now + 1
    /\ issued' = in_window(issued, now + 1)
    /\ lastFetch' = NoFetch
    /\ UNCHANGED <<client, request_times, cache_ttl, written, orchVars, callVars, procVars, chatVars, limVars>>

\* the state a limited request leaves
Requested(r) ==
    /\ r.now <= MaxTime
    /\ Len(r.issued) <= MaxRequests
    /\ now' = r.now
    /\ request_times' = r.times
    /\ issued' = r.issued
    /\ cache_ttl' = r.ttl
    /\ written' = r.written

\* GovInfoClient._make_request(endpoint, params, use_cache)
GovInfo_make_request(loc, use_cache) ==
    /\ client = "govinfo"
    /\ \E status \in Statuses :
        LET ok == (status = 200)
            r == limited_request(loc, use_cache, ok)
        IN
        /\ Requested(r)
        \* 429 raises RateLimitExceeded, any other status >= 400 GovInfoAPIError
        /\ lastFetch' = [op |-> "fetch", loc |-> loc, use_cache |-> use_cache,
                         status |-> IF r.hit THEN 0 ELSE status,
                         result |-> IF r.hit THEN "cached"
                                    ELSE IF ok THEN "fetched" ELSE "raised"]
    /\ UNCHANGED <<client, orchVars, callVars, procVars, chatVars, limVars>>

\* GovInfoClient.get_title_content: the package lookup through _make_request;
\* when it names an XML link, _download_content sends a request for the
\* content, which does not call _enforce_rate_limit
GovInfo_get_title_content(loc) ==
    /\ client = "govinfo"
    /\ \E ok \in BOOLEAN, link \in BOOLEAN :
        LET r == limited_request(loc, TRUE, ok)
            download == (r.hit \/ ok) /\ link
        IN
        /\ Requested([r EXCEPT !.issued = IF download THEN Append(@, r.now) ELSE @])
        /\ lastFetch' = [op |-> "title", loc |-> loc, use_cache |-> TRUE,
                         result |-> IF download THEN "content" ELSE "none"]
    /\ UNCHANGED <<client, orchVars, callVars, procVars, chatVars, limVars>>

\* UCCFetcher._fetch_url(url, use_cache)
UCCFetcher_fetch_url(loc, use_cache) ==
    /\ client = "ucc"
    /\ \E status \in Statuses :
        LET ok == (status = 200)
            r == limited_request(loc, use_cache, ok)
        IN
        /\ Requested(r)
        \* raise_for_status: every status >= 400, 429 included, raises UCCFetchError
        /\ lastFetch' = [op |-> "fetch", loc |-> loc, use_cache |-> use_cache,
                         status |-> IF r.hit THEN 0 ELSE status,
                         result |-> IF r.hit THEN "cached"
                                    ELSE IF ok THEN "fetched" ELSE "raised"]
    /\ UNCHANGED <<client, orchVars, callVars, procVars, chatVars, limVars>>

(***************************************************************************)
(* _enforce_rate_limit under concurrent callers: the tasks of one event    *)
(* loop that fetch through one client instance.  A task runs without       *)
(* interruption between two awaits; the awaits of the limiter are the      *)
(* acquisition of self._rate_limit_lock and asyncio.sleep, which is made   *)
(* inside the `async with` block, with the lock held.                      *)
(* The callers are _make_request and _fetch_url for a request the cache    *)
(* does not answer; the content download of GovInfoClient does not call    *)
(* the limiter (GovInfo_get_title_content, C6_RateCeiling).                *)
(***************************************************************************)
\* tasks that fetch through the client instance
MaxCallers == 2
\* the last clock tick at which a task calls the limiter
MaxStart == 2

Callers == 1..MaxCallers

\* every call made up to MaxStart has returned by then: the calls queue on
\* the lock, and each sleeps at most RATE_LIMIT_PERIOD + 1
Horizon == MaxStart + MaxCallers * (RATE_LIMIT_PERIOD + 1)

\* a sleep_time without the one-second margin
sleep_time_no_margin(times, t) == RATE_LIMIT_PERIOD - (t - times[1])

\* `sleep_time = RATE_LIMIT_PERIOD - (now - self._request_times[0]) + 1`
sleep_time(times, t) == RATE_LIMIT_PERIOD - (t - times[1]) + 1

\* a limiter whose block is entered whether or not the lock is held
lock_ignored(l) == TRUE

\* `async with self._rate_limit_lock`: the block is entered when the lock is free
lock_free(l) == l = 0

NoIssue == [caller |-> 0, at |-> -1, oldest |-> -1]

\* the request that follows the return of _enforce_rate_limit is sent
Lim_issue(c, seen) ==
    /\ issued' = Append(in_window(issued, now), now)
    /\ last_issue' = [caller |-> c, at |-> now, oldest |-> seen]

\* a task calls _enforce_rate_limit for a request the cache does not answer
Lim_call(c) ==
    /\ caller_pc[c] = "idle"
    /\ now <= MaxStart
    /\ caller_pc' = [caller_pc EXCEPT ![c] = "waiting"]
    /\ UNCHANGED <<rate_limit_lock, wake, oldest_seen, last_issue, client, now,
                   request_times, cache_ttl, issued, written, lastFetch, orchVars,
                   callVars, procVars, chatVars>>

\* the task gets the lock, prunes the window and checks it: with room it
\* records the request, leaves the block and sends; at the ceiling it goes to
\* sleep with the lock held
Lim_enter(c) ==
    /\ caller_pc[c] = "waiting"
    /\ lock_free(rate_limit_lock)
    /\ LET kept == prune(request_times, now) IN
       IF Len(kept) >= RATE_LIMIT_CALLS /\ sleep_time(kept, now) > 0
       THEN /\ request_times' = kept
            /\ rate_limit_lock' = c
            /\ caller_pc' = [caller_pc EXCEPT ![c] = "sleeping"]
            /\ wake' = [wake EXCEPT ![c] = now + sleep_time(kept, now)]
            /\ oldest_seen' = [oldest_seen EXCEPT ![c] = kept[1]]
            /\ UNCHANGED <<issued, last_issue>>
       ELSE /\ request_times' = Append(kept, now)
            /\ rate_limit_lock' = 0
            /\ caller_pc' = [caller_pc EXCEPT ![c] = "idle"]
            /\ Lim_issue(c, -1)
            /\ UNCHANGED <<wake, oldest_seen>>
    /\ UNCHANGED <<client, now, cache_ttl, written, lastFetch, orchVars, callVars,
                   procVars, chatVars>>

\* asyncio.sleep returns: the window is pruned again, the request recorded
\* without a second check, the lock released, the request sent
Lim_wake(c) ==
    /\ caller_pc[c] = "sleeping"
    /\ now >= wake[c]
    /\ request_times' = Append(prune(request_times, now), now)
    /\ rate_limit_lock' = 0
    /\ caller_pc' = [caller_pc EXCEPT ![c] = "idle"]
    /\ Lim_issue(c, oldest_seen[c])
    /\ oldest_seen' = [oldest_seen EXCEPT ![c] = -1]
    /\ UNCHANGED <<wake, client, now, cache_ttl, written, lastFetch, orchVars, callVars,
                   procVars, chatVars>>

\* a task of the event loop is ready to run: the lock is free for a waiting
\* task, or a sleep has run out
Lim_ready ==
    \E c \in Callers :
        \/ caller_pc[c] = "waiting" /\ lock_free(rate_limit_lock)
        \/ caller_pc[c] = "sleeping" /\ now >= wake[c]

\* time passes while no task is ready to run
Lim_tick ==
    /\ now < Horizon
    /\ ~Lim_ready
    /\ now' = now + 1
    /\ issued' = in_window(issued, now + 1)
    /\ UNCHANGED <<client, request_times, cache_ttl, written, lastFetch, orchVars,
                   callVars, procVars, chatVars, caller_pc, rate_limit_lock, wake,
                   oldest_seen, last_issue>>

(***************************************************************************)
(* Content processors: pure functions of the text of a section.  A text is *)
(* a sequence of one-character strings.                                    *)
(***************************************************************************)
\* longest run of letters in a raw term (group 1 of a definition pattern) drawn
MaxTermLen == 4
\* longest run of letters in a raw definition text (group 2) drawn
MaxWord == 6
\* longest run of whitespace inside a raw definition text drawn
MaxGap == 2

NoInput == [fn |-> "none"]
NoOutput == [fn |-> "none"]

\* \s of the regular expressions
IsSpace(c) == c \in {" ", "\n"}

\* str.lstrip / str.rstrip / str.strip
RECURSIVE lstrip(_)
lstrip(s) == IF s # <<>> /\ IsSpace(s[1]) THEN lstrip(Tail(s)) ELSE s

RECURSIVE rstrip(_)
rstrip(s) ==
    IF s # <<>> /\ IsSpace(s[Len(s)]) THEN rstrip(SubSeq(s, 1, Len(s) - 1)) ELSE s

strip(s) == rstrip(lstrip(s))

\* re.sub(r'\s+', ' ', s): every run of whitespace becomes one blank
collapse_whitespace(s) ==
    LET marked == [i \in 1..Len(s) |->
                      IF ~IsSpace(s[i]) THEN <<"keep", s[i]>>
                      ELSE IF i = 1 \/ ~IsSpace(s[i - 1]) THEN <<"keep", " ">>
                      ELSE <<"drop", " ">>]
        kept == SelectSeq(marked, LAMBDA m : m[1] = "keep")
    IN [i \in 1..Len(kept) |-> kept[i][2]]

\* re.sub(r'^["\']|["\']$', '', term): a quote at the start and a quote at
\* the end are removed
strip_quotes(term) ==
    LET Quotes == {"\"", "'"}
        t == IF term # <<>> /\ term[1] \in Quotes THEN Tail(term) ELSE term
    IN IF t # <<>> /\ t[Len(t)] \in Quotes THEN SubSeq(t, 1, Len(t) - 1) ELSE t

\* `len(term) > 2 and len(definition) > 10`, with >= in place of >
keeps_definition_inclusive(term, definition) == Len(term) >= 2 /\ Len(definition) >= 10

\* `if len(term) > 2 and len(definition) > 10:  # Filter out noise`
keeps_definition(term, definition) == Len(term) > 2 /\ Len(definition) > 10

\* a comparison of the terms as they are written
lower_as_written(s) == s

\* str.lower() over the characters drawn
lower(s) == [i \in 1..Len(s) |-> IF s[i] = "A" THEN "a" ELSE s[i]]

\* the de-duplication loop of _extract_definitions: the first definition of
\* each lower-cased term is kept
RECURSIVE unique_definitions(_, _)
unique_definitions(defs, seen_terms) ==
    IF defs = <<>> THEN <<>>
    ELSE LET term_key == lower(defs[1].term) IN
         IF term_key \in seen_terms THEN unique_definitions(Tail(defs), seen_terms)
         ELSE <<defs[1]>> \o unique_definitions(Tail(defs), seen_terms \cup {term_key})

\* UCCProcessor._extract_definitions over the matches of the definition
\* patterns in a text, each match a pair of its groups 1 and 2
RECURSIVE cleaned_definitions(_)
cleaned_definitions(matches) ==
    IF matches = <<>> THEN <<>>
    ELSE LET term == strip_quotes(strip(matches[1][1]))
             definition == strip(collapse_whitespace(strip(matches[1][2])))
         IN (IF keeps_definition(term, definition)
             THEN <<[term |-> term, definition |-> definition]>> ELSE <<>>)
            \o cleaned_definitions(Tail(matches))

extract_definitions(matches) == unique_definitions(cleaned_definitions(matches), {})

\* texts of n copies of character c
Run(c, n) == [i \in 1..n |-> c]

\* the texts of at most n characters of chars
RECURSIVE TextsUpTo(_, _)
TextsUpTo(chars, n) ==
    IF n = 0 THEN {<<>>}
    ELSE LET shorter == TextsUpTo(chars, n - 1) IN
         shorter \cup {Append(t, c) : t \in shorter, c \in chars}

\* the texts group 1 of a definition pattern can match: a run of letters,
\* with or without a quote and a blank on either side
RawTerms ==
    {Run(" ", p) \o Run("'", q) \o Run("a", n) \o Run("'", r) \o Run(" ", t) :
        p \in 0..1, q \in 0..1, n \in 0..MaxTermLen, r \in 0..1, t \in 0..1} \ {<<>>}

\* the texts group 2 (`[^.]+\.`) can match: a run of letters, a run of
\* whitespace and a second run of letters (none or MaxWord - 1 of them),
\* after optional leading whitespace, closed by the full stop
RawDefinitions ==
    {Run(" ", p) \o Run("a", n1) \o Run(" ", g) \o Run("a", n2) \o <<".">> :
        p \in 0..1, n1 \in 0..MaxWord, g \in 0..MaxGap, n2 \in {0, MaxWord - 1}}

DefinitionInputs ==
    {[fn |-> "extract_definitions", matches |-> <<<<t, d>>>>] :
        t \in RawTerms, d \in RawDefinitions}

\* most matches of the definition patterns in one section text drawn
MaxDefs == 3

\* the terms drawn for a text with several matches: one term in three
\* spellings of its case, a different term, and a term too short to be kept
TermVariants ==
    {<<"a", "a", "a">>, <<"A", "a", "a">>, <<"A", "A", "A">>, <<"a", "a", "b">>,
     <<"A", "a">>}

\* two definition texts that are kept and can be told apart
DefinitionVariants == {Run(c, 2 * MaxWord) \o <<".">> : c \in {"a", "b"}}

\* section texts in which the patterns match up to MaxDefs times, the
\* matches in the order in which the pattern loop produces them
RepeatedTermInputs ==
    {[fn |-> "extract_definitions", matches |-> ms] :
        ms \in UNION {[1..n -> TermVariants \X DefinitionVariants] : n \in 2..MaxDefs}}

\* _extract_definitions(content, citation, article_number)
UCC_extract_definitions ==
    /\ proc_in.fn = "extract_definitions"
    /\ proc_out = NoOutput
    /\ proc_out' = [fn |-> "extract_definitions",
                    definitions |-> extract_definitions(proc_in.matches)]
    /\ UNCHANGED <<proc_in, orchVars, fetchVars, callVars, chatVars, limVars>>

\* most tokens a section text drawn for subsection extraction holds
MaxTokens == 3

\* A section text for subsection extraction is a sequence of tokens: a
\* marker of one of the three families, other text, or a line break.
\* subsection_patterns, in their order: r'\(([a-z])\)', r'\((\d+)\)',
\* r'\(([ivx]+)\)'; "(i)" is matched by the first and by the third
subsection_patterns == <<{"(a)", "(i)"}, {"(1)"}, {"(i)"}>>

\* re.finditer(pattern, content_text) for the pattern of a level: the
\* matches from left to right, each with its start position
finditer(level, content_text) ==
    SelectSeq([i \in 1..Len(content_text) |->
                  [number |-> content_text[i], level |-> level, start |-> i]],
              LAMBDA m : m.number \in subsection_patterns[level])

\* UCCFetcher._extract_subsections: the patterns are scanned one after the
\* other over the whole text, and 'order' is the length of the list so far
\* plus one (the text from a marker to the line break starts with the
\* marker, so it is never empty and every match gives an entry)
extract_subsections(content_text) ==
    LET found == finditer(1, content_text) \o finditer(2, content_text)
                 \o finditer(3, content_text)
    IN [k \in 1..Len(found) |->
           [number |-> found[k].number, level |-> found[k].level,
            order |-> k, start |-> found[k].start]]

SubsectionInputs ==
    {[fn |-> "extract_subsections", content_text |-> t] :
        t \in TextsUpTo({"(a)", "(1)", "(i)", "\n"}, MaxTokens)}

\* _extract_subsections(content_elem)
UCC_extract_subsections ==
    /\ proc_in.fn = "extract_subsections"
    /\ proc_out = NoOutput
    /\ proc_out' = [fn |-> "extract_subsections",
                    subsections |-> extract_subsections(proc_in.content_text)]
    /\ UNCHANGED <<proc_in, orchVars, fetchVars, callVars, chatVars, limVars>>

\* `context_length: int = 100` of _extract_reference_context
context_length == 100
\* longest section content drawn for context extraction
MaxContent == 320
\* longest citation match drawn
MaxMatch == 2
\* distance between the whitespace runs of a content drawn
WhitespaceEvery == 7

Max(a, b) == IF a >= b THEN a ELSE b
Min(a, b) == IF a <= b THEN a ELSE b

\* content[lo:hi] of Python for 0 <= lo <= hi <= len(content)
Slice(content, lo, hi) == SubSeq(content, lo + 1, hi)

\* `max(0, start - context_length)` with a radius one character too wide
context_start_wide(start) == Max(0, start - context_length - 1)

\* `context_start = max(0, start - context_length)`
context_start(start) == Max(0, start - context_length)

\* `context_end = min(len(content), end + context_length)`
context_end(content, end) == Min(Len(content), end + context_length)

\* UCCProcessor._extract_reference_context(content, start, end)
extract_reference_context(content, start, end) ==
    collapse_whitespace(
        strip(Slice(content, context_start(start), context_end(content, end))))

\* A content of n characters in which every character that is not
\* whitespace is distinct (it is the decimal numeral of its offset), with a
\* run of two whitespace characters every WhitespaceEvery characters when
\* spaced is set
Content(n, spaced) ==
    [i \in 1..n |->
        IF spaced /\ i % WhitespaceEvery \in {0, 1}
        THEN (IF i % 2 = 0 THEN " " ELSE "\n")
        ELSE ToString(i - 1)]

\* contents shorter than the radius, between one and two radii, and longer
\* than two radii plus a match
ContentLengths == {MaxContent \div 6, MaxContent \div 2, MaxContent}

\* a content and the span [start, end) of a citation match inside it
ContextInputs ==
    {in \in {[fn |-> "extract_reference_context", content |-> Content(n, sp),
              start |-> st, end |-> st + len] :
                 n \in ContentLengths, sp \in BOOLEAN, st \in 0..MaxContent,
                 len \in 1..MaxMatch} :
        in.end <= Len(in.content)}

\* _extract_reference_context(content, match.start(), match.end())
UCC_extract_reference_context ==
    /\ proc_in.fn = "extract_reference_context"
    /\ proc_out = NoOutput
    /\ proc_out' = [fn |-> "extract_reference_context",
                    context |-> extract_reference_context(proc_in.content,
                                                          proc_in.start, proc_in.end)]
    /\ UNCHANGED <<proc_in, orchVars, fetchVars, callVars, chatVars, limVars>>

\* `return keywords[:20]` of USCodeProcessor._extract_keywords
KeywordCap == 20
\* hash seeds drawn for a process (PYTHONHASHSEED), 0..MaxSeed
MaxSeed == 3

Range(seq) == {seq[i] : i \in DOMAIN seq}

\* the words the legal-terms pattern of USCodeProcessor._extract_keywords
\* matches, in the order of its alternation
LegalTerms ==
    <<"shall", "may", "must", "required", "prohibited", "unlawful", "penalty",
      "fine", "imprisonment", "liability", "damages", "jurisdiction",
      "enforcement", "compliance", "violation", "regulation", "definition",
      "includes", "means", "term">>

\* self.legal_keywords, in the order of the dictionary; of the terms of each
\* category those that occur inside a word of LegalTerms
legal_keywords ==
    <<[category |-> "criminal", terms |-> {"penalty", "imprisonment"}],
      [category |-> "civil", terms |-> {"liability", "damages"}],
      [category |-> "regulatory",
       terms |-> {"regulation", "compliance", "enforcement", "violation"}],
      [category |-> "procedure", terms |-> {"jurisdiction"}],
      [category |-> "definitions", terms |-> {"definition", "means", "includes", "term"}],
      [category |-> "requirements", terms |-> {"shall", "must", "required"}],
      [category |-> "prohibitions", terms |-> {"prohibited", "unlawful"}],
      [category |-> "exceptions", terms |-> {}]>>

\* The order in which a process iterates over a set of strings.  It follows
\* the hashes of the strings, which are salted per process, so it is any
\* order; the orders drawn are the rotations of `universe` by the seed.
HashOrder(S, universe, seed) ==
    LET n == Len(universe)
        rotated == [i \in 1..n |-> universe[((i - 1 + seed) % n) + 1]]
    IN SelectSeq(rotated, LAMBDA w : w \in S)

\* a text made of words: the blank-separated words, with a doubled blank
\* after the first word
TextOf(words) ==
    IF words = <<>> THEN <<>>
    ELSE <<words[1], " ">>
         \o [i \in 1..(2 * (Len(words) - 1)) |->
                IF i % 2 = 1 THEN " " ELSE words[(i \div 2) + 1]]

Words(text) == SelectSeq(text, LAMBDA w : ~IsSpace(w))

\* USCodeProcessor._clean_text_for_search on a text of words and blanks
\* (no special characters): runs of whitespace collapsed, ends stripped
clean_text_for_search(text) == strip(collapse_whitespace(text))

\* USCodeProcessor._extract_keywords(text) in a process with the given seed
USC_extract_keywords(text, seed) ==
    LET present == Range(Words(text))
        found == SelectSeq(legal_keywords, LAMBDA k : k.terms \cap present # {})
        categories == [i \in 1..Len(found) |-> found[i].category]
        legal_terms == present \cap Range(LegalTerms)
        keywords == categories
                    \o SelectSeq(HashOrder(legal_terms, LegalTerms, seed),
                                 LAMBDA t : t \notin Range(categories))
    IN SubSeq(keywords, 1, Min(Len(keywords), KeywordCap))

\* USCodeProcessor._process_section_element: the fields under study
USC_process_section_element(in, seed) ==
    LET clean_text == clean_text_for_search(in.text) IN
    [citation |-> <<in.title_number, "USC", in.section_number>>,
     clean_text |-> clean_text,
     definitions |-> {},
     keywords |-> Range(USC_extract_keywords(clean_text, seed))]

\* legal_terms of UCCProcessor._extract_keywords
UCCLegalTerms ==
    <<"contract", "agreement", "party", "obligation", "right", "duty", "breach",
      "remedy", "damages", "liability", "enforce", "void", "voidable", "valid",
      "invalid", "notice", "consent", "authorize">>

\* `term in content_lower` for a content made of words of UCCLegalTerms: the
\* term is one of the words or lies inside one
OccursIn(term, words) ==
    \/ term \in words
    \/ term = "void" /\ "voidable" \in words
    \/ term = "valid" /\ "invalid" \in words

\* _extract_commercial_terms for such a content: of self.commercial_keywords
\* only 'breach' and 'ACH' (inside "breach") occur
extract_commercial_terms(words) ==
    IF "breach" \in words THEN <<"ACH", "breach">> ELSE <<>>

\* sorted(...) of Python over the keywords that can occur
SortedKeywords ==
    <<"ACH", "agreement", "authorize", "breach", "consent", "contract", "damages",
      "duty", "enforce", "invalid", "liability", "notice", "obligation", "party",
      "remedy", "right", "valid", "void", "voidable">>

\* UCCProcessor._extract_keywords(content) in a process with the given seed:
\* list(set(keywords)) comes in hash order and is then sorted (every keyword
\* that can occur is between 3 and 49 characters long; a content of
\* lower-case words has no capitalised phrase)
UCC_extract_keywords(text, seed) ==
    LET words == Range(Words(text))
        keywords == extract_commercial_terms(words)
                    \o SelectSeq(UCCLegalTerms, LAMBDA t : OccursIn(t, words))
        unique == HashOrder(Range(keywords), SortedKeywords, seed)
    IN SelectSeq(SortedKeywords, LAMBDA k : k \in Range(unique))

\* UCCProcessor.process_section_content: the fields under study
UCC_process_section_content(in, seed) ==
    [citation |-> in.citation,
     clean_text |-> strip(collapse_whitespace(in.text)),
     definitions |-> Range(extract_definitions(in.matches)),
     keywords |-> Range(UCC_extract_keywords(in.text, seed))]

\* a definition match that passes the filter
GoodMatch == <<Run("a", MaxTermLen), Run("a", MaxWord) \o <<" ">> \o Run("a", MaxWord) \o <<".">>>>

\* raw sections: a text of the first n words of the processor's legal terms,
\* processed once by a process with hash seed seed1 and once by a process
\* with hash seed seed2 (the same process when the seeds are equal)
SectionInputs ==
    {[fn |-> "process_section", processor |-> "uscode", title_number |-> 1,
      section_number |-> "101", text |-> TextOf(SubSeq(LegalTerms, 1, n)),
      seed1 |-> s1, seed2 |-> s2] :
        n \in 0..Len(LegalTerms), s1 \in 0..MaxSeed, s2 \in 0..MaxSeed}
    \cup
    {[fn |-> "process_section", processor |-> "ucc", citation |-> "UCC 1-101",
      text |-> TextOf(SubSeq(UCCLegalTerms, 1, n)), matches |-> ms,
      seed1 |-> s1, seed2 |-> s2] :
        n \in 0..Len(UCCLegalTerms), ms \in {<<>>, <<GoodMatch>>},
        s1 \in 0..MaxSeed, s2 \in 0..MaxSeed}

\* _process_section_element on one section element, by two processes
USC_process_section_twice ==
    /\ proc_in.fn = "process_section"
    /\ proc_in.processor = "uscode"
    /\ proc_out = NoOutput
    /\ proc_out' = [fn |-> "process_section",
                    first |-> USC_process_section_element(proc_in, proc_in.seed1),
                    second |-> USC_process_section_element(proc_in, proc_in.seed2)]
    /\ UNCHANGED <<proc_in, orchVars, fetchVars, callVars, chatVars, limVars>>

\* process_section_content on one raw section, by two processes
UCC_process_section_twice ==
    /\ proc_in.fn = "process_section"
    /\ proc_in.processor = "ucc"
    /\ proc_out = NoOutput
    /\ proc_out' = [fn |-> "process_section",
                    first |-> UCC_process_section_content(proc_in, proc_in.seed1),
                    second |-> UCC_process_section_content(proc_in, proc_in.seed2)]
    /\ UNCHANGED <<proc_in, orchVars, fetchVars, callVars, chatVars, limVars>>

(***************************************************************************)
(* The chat service, FamilyPortalAI (parlant_service.py): its HTTP routes. *)
(***************************************************************************)
\* requests the service answers in a behaviour
MaxChatRequests == 3

NoRequest == [route |-> "none"]
NoResponse == [status |-> 0]

\* what a client can put in the Authorization header: nothing, a bearer token
\* that is not the shared secret, the shared secret as bearer token
Authorizations == {"absent", "wrong", "secret"}

\* POST /api/chat requests: the JSON body (message, session_id) and the
\* headers; session_id "none" when the body leaves it out
ChatRequests ==
    {[route |-> "chat", message |-> msg, session_id |-> sid, authorization |-> a] :
        msg \in {"What is status correction?", "How do I upload documents?"},
        sid \in {"none", "test_session_001"}, a \in Authorizations}

\* `security = HTTPBearer()` as dependency of verify_token: without an
\* Authorization header the request is refused before verify_token runs,
\* with 403 or 401 according to the FastAPI release
HTTPBearer_refusals == {401, 403}

\* the chat route with its dependency verify_token, for a well-formed body
chat(request, pclient) ==
    IF request.authorization = "absent"
    THEN {[status |-> st, detail |-> "Not authenticated"] : st \in HTTPBearer_refusals}
    ELSE IF request.authorization # "secret"
    THEN {[status |-> 401, detail |-> "Invalid authentication token"]}
    ELSE IF pclient = "none"
    \* the HTTPException(503) is raised inside the try and caught by
    \* `except Exception`: the apology is returned with status 200
    THEN {[status |-> 200, response |-> "apology", success |-> FALSE,
           session_id |-> IF request.session_id = "none" THEN "error"
                          ELSE request.session_id]}
    \* process_chat: a generated answer, or its own apology when it fails
    ELSE {[status |-> 200, response |-> r, success |-> (r = "answer"),
           session_id |-> IF request.session_id = "none"
                          THEN (IF r = "answer" THEN "fp-session-1" ELSE "error")
                          ELSE request.session_id] : r \in {"answer", "apology"}}

\* setup_parlant_client at start-up succeeded
Chat_setup_parlant_client ==
    /\ parlant_client = "none"
    /\ parlant_client' = "ready"
    /\ UNCHANGED <<served, chat_request, chat_response, orchVars, fetchVars, callVars,
                   procVars, limVars>>

\* POST /api/chat
Chat_post ==
    /\ served < MaxChatRequests
    /\ \E request \in ChatRequests :
        /\ chat_request' = request
        /\ chat_response' \in chat(request, parlant_client)
    /\ served' = served + 1
    /\ UNCHANGED <<parlant_client, orchVars, fetchVars, callVars, procVars, limVars>>

\* GET /health
Chat_health_check ==
    /\ served < MaxChatRequests
    /\ chat_request' = [route |-> "health"]
    /\ chat_response' = [status |-> 200, parlant_connected |-> (parlant_client # "none")]
    /\ served' = served + 1
    /\ UNCHANGED <<parlant_client, orchVars, fetchVars, callVars, procVars, limVars>>

(***************************************************************************)
(* Initial states and specifications.                                      *)
(***************************************************************************)
\* a fetch client after construction
FetchIdle ==
    /\ now = 0
    /\ request_times = <<>>
    /\ cache_ttl = [l \in Locators |-> 0]
    /\ issued = <<>>
    /\ written = [l \in Locators |-> -1]
    /\ lastFetch = NoFetch

\* an indexer after construction
IndexerIdle ==
    /\ pc = "idle"
    /\ runs = 0
    /\ selector = 0
    /\ current_job_id = 0
    /\ stats = ZeroStats
    /\ todo = <<>>
    /\ idx = 1
    /\ unitSecs = <<>>
    /\ unitDivs = 0
    /\ didx = 1
    /\ sidx = 1
    /\ session = "none"
    /\ cache = {}
    /\ statusLog = [j \in 1..MaxRuns |-> <<>>]
    /\ exc = "none"
    /\ enumFailed = FALSE
    /\ unitStarted = FALSE
    /\ stored = {}
    /\ faults = {}
    /\ skipped = {}
    /\ failedUnits = {}
    /\ unitLog = <<>>
    /\ secCreated = {}
    /\ childFailed = FALSE
    /\ errAtUnit = 0
    /\ unit_id = NoId
    /\ section_id = NoId
    /\ idLog = <<>>
    /\ lastResp = "none"
    /\ backendFaults = 0
    /\ to_section_id = "none"
    /\ cross_ref_data = NoRecord

\* the chat service after construction
ChatIdle ==
    /\ parlant_client = "none"
    /\ served = 0
    /\ chat_request = NoRequest
    /\ chat_response = NoResponse

\* no task has called the limiter
LimIdle ==
    /\ caller_pc = [c \in Callers |-> "idle"]
    /\ rate_limit_lock = 0
    /\ wake = [c \in Callers |-> 0]
    /\ oldest_seen = [c \in Callers |-> -1]
    /\ last_issue = NoIssue

\* no processor function under study
ProcIdle ==
    /\ proc_in = NoInput
    /\ proc_out = NoOutput

Init ==
    /\ corpus \in {"uscode", "ucc"}
    /\ client = IF corpus = "uscode" THEN "govinfo" ELSE "ucc"
    /\ IndexerIdle
    /\ FetchIdle
    /\ ProcIdle
    /\ ChatIdle
    /\ LimIdle

\* one start_full_indexing call on a fresh indexer instance
Next == USC_Next \/ UCC_Next

Spec == Init /\ [][Next]_vars

\* successive start_full_indexing calls on one indexer instance
NextRuns ==
    \/ Next
    \/ \E sel \in {0} \cup Units : USC_start_again(sel)
    \/ \E sel \in {0} \cup Units : UCC_start_again(sel)

SpecRuns == Init /\ [][NextRuns]_vars

\* KeyboardInterrupt or asyncio.CancelledError delivered at a suspension point
\* of a run whose job exists: both derive from BaseException, so no
\* `except Exception` clause of the orchestrator runs and the exception
\* leaves start_full_indexing as it is
Interrupt ==
    /\ pc \notin {"idle", "returned", "raised"}
    /\ current_job_id # 0
    /\ NoCall
    /\ exc' = "interrupt"
    /\ pc' = "raised"
    /\ UNCHANGED <<inst, stats, todo, idx, unitVars, fetcher, statusLog, runGhost,
                   unitGhost, fetchVars, callVars, procVars, chatVars, limVars>>

\* one start_full_indexing call that the host process may interrupt
NextInterrupt == Next \/ Interrupt

SpecInterrupt == Init /\ [][NextInterrupt]_vars

\* UCCIndexer.start_incremental_indexing: the job is created with status
\* 'pending' and its id returned; nothing else is sent for it, and
\* self.current_job_id is not assigned. A failed creation is logged and raised.
UCC_start_incremental_indexing ==
    /\ corpus = "ucc"
    /\ pc = "idle"
    /\ runs < MaxRuns
    /\ runs' = runs + 1
    /\ \E o \in BackendOutcomes :
        /\ lastResp' = o
        /\ backendFaults' = IF Success(o) THEN 0 ELSE 1
        /\ stats' = UCC_make_backend_request(stats, o)
        /\ IF Success(o)
           THEN /\ statusLog' = [statusLog EXCEPT ![runs + 1] = <<"pending">>]
                /\ exc' = "none"
                /\ pc' = "returned"
           ELSE /\ exc' = "job_create"
                /\ pc' = "raised"
                /\ UNCHANGED statusLog
    /\ UNCHANGED <<corpus, selector, current_job_id, todo, idx, unitVars, fetcher,
                   runGhost, unitGhost, fetchVars, callVars, procVars, chatVars, limVars>>

\* one job-creating call on a fresh indexer instance: start_full_indexing or
\* start_incremental_indexing
NextJobs == Next \/ UCC_start_incremental_indexing

SpecJobs == Init /\ [][NextJobs]_vars

\* one start_full_indexing call for one unit (title_number / article_number
\* given) on a fresh indexer instance
NextOneUnit ==
    \/ \E sel \in Units : USC_start_full_indexing(sel)
    \/ USC_run_full_indexing
    \/ USC_status_fetching
    \/ USC_single_title
    \/ USC_status_processing
    \/ USC_fetch_title
    \/ USC_process_title_xml
    \/ USC_store_title
    \/ USC_store_chapter
    \/ USC_store_section
    \/ USC_create_search_index
    \/ USC_title_done
    \/ USC_after_title
    \/ USC_status_finalizing
    \/ USC_finalize_indexing
    \/ USC_status_completed
    \/ USC_final_stats
    \/ USC_start_except
    \/ \E sel \in Units : UCC_start_full_indexing(sel)
    \/ UCC_run_full_indexing
    \/ UCC_status_fetching
    \/ UCC_get_article_list
    \/ UCC_status_processing
    \/ UCC_fetch_article_sections
    \/ UCC_process_article_content
    \/ UCC_store_article_data
    \/ UCC_store_section_data
    \/ UCC_store_subsection_data
    \/ UCC_store_definition_data
    \/ UCC_resolve_cross_reference
    \/ UCC_store_cross_reference_data
    \/ UCC_store_search_index_data
    \/ UCC_article_done
    \/ UCC_status_finalizing
    \/ UCC_finalize_indexing
    \/ UCC_status_completed
    \/ UCC_run_except
    \/ UCC_start_except

SpecOneUnit == Init /\ [][NextOneUnit]_vars

\* the inputs of the processor functions
ProcInputs ==
    DefinitionInputs \cup RepeatedTermInputs \cup SubsectionInputs \cup ContextInputs
        \cup SectionInputs

\* one processor function applied to one input
InitProc ==
    /\ corpus = "ucc"
    /\ client = "ucc"
    /\ IndexerIdle
    /\ FetchIdle
    /\ proc_in \in ProcInputs
    /\ proc_out = NoOutput
    /\ ChatIdle
    /\ LimIdle

NextProc ==
    \/ UCC_extract_definitions
    \/ UCC_extract_subsections
    \/ UCC_extract_reference_context
    \/ USC_process_section_twice
    \/ UCC_process_section_twice

SpecProc == InitProc /\ [][NextProc]_vars

\* the chat service and its clients
NextChat ==
    \/ Chat_setup_parlant_client
    \/ Chat_post
    \/ Chat_health_check

SpecChat == Init /\ [][NextChat]_vars

\* calls of the fetch operations of one client instance, by one caller
NextFetch ==
    \/ Tick
    \/ \E loc \in Locators, use_cache \in BOOLEAN : GovInfo_make_request(loc, use_cache)
    \/ \E loc \in Locators : GovInfo_get_title_content(loc)
    \/ \E loc \in Locators, use_cache \in BOOLEAN : UCCFetcher_fetch_url(loc, use_cache)

SpecFetch == Init /\ [][NextFetch]_vars

\* the tasks of one event loop that call the limiter of one client instance.
\* Time passes; a sleep that has run out returns; asyncio.Lock wakes its
\* waiters first come, first served, so no waiting task is passed over for ever.
NextLimiter ==
    \/ Lim_tick
    \/ \E c \in Callers : Lim_call(c)
    \/ \E c \in Callers : Lim_enter(c)
    \/ \E c \in Callers : Lim_wake(c)

SpecLimiter ==
    /\ Init
    /\ [][NextLimiter]_vars
    /\ WF_vars(Lim_tick)
    /\ \A c \in Callers : SF_vars(Lim_enter(c)) /\ WF_vars(Lim_wake(c))

(***************************************************************************)
(* Properties of the orchestrators, stated for Spec.                       *)
(***************************************************************************)
Terminal == {"completed", "failed"}

\* the statuses pushed for the job of the run, in order
JobLog == IF current_job_id = 0 THEN <<>> ELSE statusLog[current_job_id]

Pushed(s) == \E i \in DOMAIN JobLog : JobLog[i] = s

LastPushed == IF JobLog = <<>> THEN "none" ELSE JobLog[Len(JobLog)]

Logged(e) == \E i \in DOMAIN unitLog : unitLog[i] = e

\* start_full_indexing has returned the job id of a run without unit selector
FullRunReturned == pc = "returned" /\ selector = 0

\* the exception path of start_full_indexing
RaisePcs == {"run_except", "start_except", "raised"}

\* the steps that send a child record of a created section
ChildPcs == {"search_index", "sub", "def", "lookup", "xref", "idx"}

\* the child records the orchestrator sends for a created section
ChildKinds == IF corpus = "uscode" THEN {"idx"} ELSE {"sub", "def", "xref", "idx"}

\* the store routine of the unit in hand has sent everything it sends
UnitStoreDone == pc = "store" /\ didx > unitDivs /\ sidx > Len(unitSecs)

\* C1: a full run in which the environment makes exactly one unit fail (and
\* every unit exists at the source) still pushes 'completed', ends with an
\* error count of at least one, and has stored every other unit.
C1_OneFailureIsolated ==
    (FullRunReturned /\ Cardinality(faults) = 1 /\ skipped = {}) =>
        /\ Pushed("completed")
        /\ stats.errors >= 1
        /\ \A i \in 1..Len(todo) : i \notin faults => i \in stored

\* C2: at the end of a full run the error counter equals the number of units
\* whose processing failed, and the units-processed counter equals the number
\* of units that did not fail.
C2_ErrorsCountFailedUnits ==
    FullRunReturned =>
        /\ stats.errors = Cardinality(failedUnits)
        /\ stats.units = Len(todo) - Cardinality(failedUnits)

\* C3: the statuses pushed for one job start with 'pending', and once
\* 'completed' or 'failed' was pushed no later status is non-terminal.
C3_StatusSequence ==
    \A j \in DOMAIN statusLog :
        LET l == statusLog[j] IN
        /\ l # <<>> => l[1] = "pending"
        /\ \A i, k \in DOMAIN l : (i < k /\ l[i] \in Terminal) => l[k] \in Terminal

C5_RaisesOnlyForSetup ==
    pc \in RaisePcs =>
        /\ ~unitStarted
        /\ \/ current_job_id = 0 /\ exc = "job_create"
           \/ enumFailed /\ exc = "enum"
           \/ selector # 0 /\ todo = <<>> /\ ~enumFailed /\ exc = "not_found"

\* C5 witness: the call has raised because the requested unit was not found.
C5_Witness == pc = "raised" /\ exc = "not_found" /\ selector # 0

\* C8: of the create calls of one unit, no division create follows a section
\* create, and every child-record create of a section follows that section's
\* create call, which had returned success.
C8_CreateOrder ==
    \A j \in DOMAIN unitLog :
        /\ unitLog[j][1] = "div" => \A i \in 1..(j - 1) : unitLog[i][1] # "sec"
        /\ unitLog[j][1] \in {"sub", "def", "xref", "idx"} =>
              /\ unitLog[j][2] \in secCreated
              /\ \E i \in 1..(j - 1) : unitLog[i] = <<"sec", unitLog[j][2]>>

\* C8 witness: a unit with a chapter whose section and search-index entry
\* were created.
C8_Witness ==
    /\ \E i \in DOMAIN unitLog : unitLog[i][1] = "div"
    /\ \E i \in DOMAIN unitLog : unitLog[i][1] = "idx"

\* C9, the completeness part: when the store routine of a unit is through,
\* every section of the unit was sent, and every child record of every
\* created section.
C9_AllSent ==
    UnitStoreDone =>
        \A k \in DOMAIN unitSecs :
            /\ Logged(<<"sec", unitSecs[k]>>)
            /\ unitSecs[k] \in secCreated =>
                  \A kind \in ChildKinds : Logged(<<kind, unitSecs[k]>>)

\* C9: a child-record call that is answered with a failure raises nothing
\* (the next step is the next child or the next section), leaves the error
\* counter and the failed units alone, and the unit still sends all the rest.
C9_ChildFailureNonFatal ==
    /\ []C9_AllSent
    /\ []((childFailed => stats.errors = errAtUnit))
    /\ [][(pc \in ChildPcs /\ ~Success(lastResp')) =>
             /\ stats'.errors = stats.errors
             /\ failedUnits' = failedUnits
             /\ idx' = idx
             /\ pc' \in ChildPcs \cup {"store"}]_vars

\* C9 witness: a unit whose store routine is through although a child-record
\* call of one of its two sections had failed.
C9_Witness ==
    /\ UnitStoreDone
    /\ childFailed
    /\ Len(unitSecs) = 2
    /\ Cardinality(secCreated) = 2

\* C10: a backend call answered with a status >= 400 or with success false
\* adds one to the failed-call counter; one answered with success leaves it.
C10_FailedCallsCounted ==
    [][/\ lastResp' \in {"http", "nosuccess"} => stats'.failed = stats.failed + 1
       /\ lastResp' = "ok" => stats'.failed = stats.failed]_vars

(***************************************************************************)
(* Properties of the fetch clients, stated for SpecFetch.                  *)
(***************************************************************************)
\* C6: in every window of length RATE_LIMIT_PERIOD the client instance sends
\* at most RATE_LIMIT_CALLS network requests (at every instant, the window
\* that ends at that instant holds at most so many).
C6_RateCeiling == Len(issued) <= RATE_LIMIT_CALLS

\* the cache entry of locator l was written less than cache_duration ago
Fresh(l) == written[l] >= 0 /\ now < written[l] + cache_duration

\* C7: a fetch with use_cache set that comes less than the TTL after the last
\* cache write for its locator returns the cached content, sends nothing and
\* records no timestamp in the window; one that comes at or after the expiry
\* (or before any write) passes the limiter, which records its timestamp,
\* and sends one request.
C7_CacheTTL ==
    [][\A l \in Locators :
          (lastFetch'.op = "fetch" /\ lastFetch'.loc = l /\ lastFetch'.use_cache) =>
              IF Fresh(l)
              THEN /\ lastFetch'.result = "cached"
                   /\ issued' = issued
                   /\ request_times' = request_times
                   /\ now' = now
              ELSE /\ lastFetch'.result # "cached"
                   /\ issued' = Append(in_window(issued, now'), now')
                   /\ request_times' # <<>>
                   /\ request_times'[Len(request_times')] = now'
                   /\ Len(request_times') <= RATE_LIMIT_CALLS]_vars

\* C7 witness: a fetch was answered from the cache at a later tick than the
\* entry was written, the entry being one written after a first one expired.
C7_Witness ==
    /\ lastFetch.op = "fetch"
    /\ lastFetch.result = "cached"
    /\ written[lastFetch.loc] >= cache_duration
    /\ now > written[lastFetch.loc]

(***************************************************************************)
(* Cross-reference records, stated for Spec.                               *)
(***************************************************************************)
\* the step that stores the cross-reference of the section in hand: the POST
\* of _store_cross_reference_data (UCC), the references loop that follows
\* _create_search_index (US Code)
StoresCrossReference ==
    \/ corpus = "ucc" /\ pc = "xref"
    \/ corpus = "uscode" /\ pc = "search_index"

\* C11: when the cross-reference of a section is stored, a record is sent to
\* the store; if the lookup by citation found the target the record carries
\* the target's id, and if it did not (or the reference is external) the
\* record carries the raw reference string, so that no reference is lost.
C11_ReferenceKept ==
    [][StoresCrossReference =>
         /\ cross_ref_data'.sent
         /\ (to_section_id = "id" => cross_ref_data'.toSectionId = "id")
         /\ (to_section_id = "none" => cross_ref_data'.externalReference # "none")]_vars

(***************************************************************************)
(* Section extraction failures, stated for Spec.                           *)
(***************************************************************************)
\* the processing step of the unit in hand left out k sections because their
\* extraction raised, and went on to store the others
SectionsLeftOut(k) ==
    /\ pc = "process"
    /\ pc' \in {"store_title", "store_article"}
    /\ Len(unitSecs') = Len(unitSecs) - k

\* C12: when the extraction of a section raises while a unit is processed,
\* the section is skipped, the unit goes on with the remaining sections, and
\* the run's error counter is increased.
C12_SectionErrorCounted ==
    [][\A k \in 1..MaxSections : SectionsLeftOut(k) => stats'.errors > stats.errors]_vars

(***************************************************************************)
(* Interrupts, stated for SpecInterrupt.                                   *)
(***************************************************************************)
\* C13: when an interrupt (keyboard interrupt or task cancellation) ends a
\* run whose job was created, a status update to 'failed' has been attempted
\* for that job by the time the exception leaves start_full_indexing.
C13_InterruptMarksFailed ==
    (pc = "raised" /\ exc = "interrupt") => Pushed("failed")

(***************************************************************************)
(* Reactive rate limiting, stated for SpecFetch.                           *)
(***************************************************************************)
\* C14: a request answered with HTTP 429 does not make the fetch fail with an
\* error: the client backs off as the proactive limiter does and reissues
\* the request.
C14_Backoff429 ==
    (lastFetch.op = "fetch" /\ lastFetch.status = 429) => lastFetch.result # "raised"

(***************************************************************************)
(* Job lifecycle, stated for SpecJobs.                                     *)
(***************************************************************************)
\* the jobs the store holds: those whose creation was answered with success
CreatedJobs == {j \in DOMAIN statusLog : statusLog[j] # <<>>}

\* C15: when the operation that created a job (full or incremental) has
\* returned, the last status sent for the job is a terminal one: no job is
\* left pending or running.
C15_JobsReachTerminal ==
    pc = "returned" =>
        \A j \in CreatedJobs : statusLog[j][Len(statusLog[j])] \in Terminal

(***************************************************************************)
(* Content processors, stated for SpecProc.                                *)
(***************************************************************************)
\* C16: every definition that definition extraction returns has a term of
\* more than 2 characters and a definition text of more than 10 characters.
C16_NoNoiseDefinitions ==
    proc_out.fn = "extract_definitions" =>
        \A i \in DOMAIN proc_out.definitions :
            /\ Len(proc_out.definitions[i].term) > 2
            /\ Len(proc_out.definitions[i].definition) > 10

\* a definition was returned, from a raw match that needed cleaning
C16_Witness ==
    /\ proc_out.fn = "extract_definitions"
    /\ proc_out.definitions # <<>>
    /\ proc_out.definitions[1].term # proc_in.matches[1][1]
    /\ Len(proc_out.definitions[1].definition) < Len(proc_in.matches[1][2])

\* the entries of the lettered and of the numeric marker family
LetteredOrNumeric ==
    SelectSeq(proc_out.subsections, LAMBDA e : e.level \in {1, 2})

\* C17: the 'order' values of the subsections of the lettered and numeric
\* families are 1..n, ascending in the order in which their markers appear
\* in the text, however the markers of the two families are interleaved.
C17_OrderFollowsText ==
    proc_out.fn = "extract_subsections" =>
        LET subs == LetteredOrNumeric IN
        /\ {subs[k].order : k \in DOMAIN subs} = 1..Len(subs)
        /\ \A i, j \in DOMAIN subs :
              subs[i].start < subs[j].start => subs[i].order < subs[j].order

\* the characters of a text that are not whitespace, in order
Visible(text) == SelectSeq(text, LAMBDA c : ~IsSpace(c))

\* C18: the context captured for a citation match at [start, end) of a
\* content of length L is made of the characters of
\* content[max(0, start-100) .. min(L, end+100)] and of nothing else (its
\* visible characters are exactly those of that window, in order), so it
\* reaches at most 100 characters before start and after end, stays inside
\* 0..L, and is at most (end - start) + 200 characters long.
C18_ContextWindow ==
    proc_out.fn = "extract_reference_context" =>
        LET L == Len(proc_in.content)
            lo == Max(0, proc_in.start - 100)
            hi == Min(L, proc_in.end + 100)
        IN
        /\ Visible(proc_out.context) = Visible(Slice(proc_in.content, lo, hi))
        /\ Len(proc_out.context) <= hi - lo
        /\ Len(proc_out.context) <= (proc_in.end - proc_in.start) + 200

\* a match more than 100 characters away from both ends of the content, whose
\* context is shorter than the window because whitespace was normalised
C18_Witness ==
    /\ proc_out.fn = "extract_reference_context"
    /\ proc_in.start > 100
    /\ proc_in.end + 100 < Len(proc_in.content)
    /\ Len(proc_out.context) < (proc_in.end - proc_in.start) + 200
    /\ Len(proc_out.context) > 100

\* C19: processing the same raw section twice, in one process or in two,
\* gives the same citation, the same clean text, the same definition set and
\* the same keyword set, for either processor and also when more keywords
\* are found than the keyword cap keeps.
C19_Deterministic ==
    proc_out.fn = "process_section" => proc_out.first = proc_out.second

(***************************************************************************)
(* The chat route, stated for SpecChat.                                    *)
(***************************************************************************)
\* C20: a POST to /api/chat whose body carries a message and a session_id
\* and whose only header is Content-Type (no Authorization header) is
\* answered with HTTP 200 and a body that holds a response text.
C20_ChatAnswered ==
    (/\ chat_request.route = "chat"
     /\ chat_request.session_id # "none"
     /\ chat_request.authorization = "absent")
        => chat_response.status = 200

(***************************************************************************)
(* The limiter under concurrent callers, stated for SpecLimiter.           *)
(***************************************************************************)
\* a request that was sent after its task found the window full came no
\* earlier than one tick after the oldest timestamp of that window left it
IssuedAfterWindow ==
    last_issue.oldest >= 0 =>
        last_issue.at >= last_issue.oldest + RATE_LIMIT_PERIOD + 1

\* C21: a request whose task finds RATE_LIMIT_CALLS timestamps in the window
\* is not sent before the oldest of them has left the window and one more
\* tick has passed; and every call of the limiter returns, so the request of
\* every task that called it is sent in the end.
C21_DelayedThenIssued ==
    /\ []IssuedAfterWindow
    /\ [](\A c \in Callers : caller_pc[c] = "sleeping" => now <= wake[c])
    /\ \A c \in Callers : (caller_pc[c] # "idle") ~> (caller_pc[c] = "idle")

\* C21 witness: a request was sent exactly at the end of the sleep its task
\* made for a full window.
C21_Witness ==
    /\ last_issue.oldest >= 0
    /\ last_issue.at = last_issue.oldest + RATE_LIMIT_PERIOD + 1
    /\ caller_pc[last_issue.caller] = "idle"

\* C22: the block of _enforce_rate_limit is run by one task at a time (a
\* sleeping task holds the lock, so no other task reads or appends to the
\* window meanwhile), and under every interleaving the window holds at most
\* RATE_LIMIT_CALLS timestamps, as do the requests sent within one period.
C22_WindowExclusive ==
    /\ \A c \in Callers : caller_pc[c] = "sleeping" => rate_limit_lock = c
    /\ Len(request_times) <= RATE_LIMIT_CALLS
    /\ Len(issued) <= RATE_LIMIT_CALLS

\* C22 witness: one task sleeps on the full window with the lock held while
\* another waits for the lock.
C22_Witness ==
    /\ \E c \in Callers : caller_pc[c] = "sleeping"
    /\ \E c \in Callers : caller_pc[c] = "waiting"
    /\ Len(request_times) = RATE_LIMIT_CALLS

(***************************************************************************)
(* Identifiers and counters of the store routines.                         *)
(***************************************************************************)
\* create call j of the unit in hand sent, as its parent id, the id that the
\* answer to an earlier create call for record `parent` carried
SentIdOf(j, parent) ==
    \E i \in 1..(j - 1) :
        /\ unitLog[i] = parent
        /\ idLog[i].got # NoId
        /\ idLog[j].sent = idLog[i].got

\* the step is the create call of the section in hand
SectionCreateStep ==
    /\ pc = "store"
    /\ didx > unitDivs
    /\ sidx <= Len(unitSecs)
    /\ lastResp' # "none"

\* C23: every division and section create call sends the unit id that the
\* answer to the unit create carried, every child-record create call sends
\* the section id that the answer to its section's create carried; after a
\* unit create without success no call of that unit follows, after a section
\* create without success no child-record call of that section follows.
C23_IdsFromResponses ==
    /\ [](\A j \in DOMAIN unitLog :
            /\ unitLog[j][1] \in {"div", "sec"} => SentIdOf(j, <<"unit", 0>>)
            /\ unitLog[j][1] \in {"sub", "def", "xref", "idx"} =>
                  SentIdOf(j, <<"sec", unitLog[j][2]>>))
    /\ [][(pc \in {"store_title", "store_article"} /\ ~Success(lastResp')) =>
             /\ pc' = "loop"
             /\ idx' = idx + 1
             /\ unitLog' = <<>>]_vars
    /\ [][(SectionCreateStep /\ ~Success(lastResp')) =>
             /\ pc' \notin ChildPcs
             /\ section_id' = NoId
             /\ \A j \in DOMAIN unitLog' : unitLog'[j][1] \notin {"sub", "def", "xref", "idx"}
                                           \/ unitLog'[j][2] # unitSecs[sidx]]_vars

\* C23 witness: the store routine of a unit is through; one section create
\* was answered without success, another section and its search-index entry
\* were created.
C23_Witness ==
    /\ UnitStoreDone
    /\ \E i \in DOMAIN unitLog : unitLog[i][1] = "sec" /\ idLog[i].got = NoId
    /\ \E j \in DOMAIN unitLog : unitLog[j][1] = "idx" /\ idLog[j].sent # NoId

\* C24: the list of units a run iterates over holds no unit number twice.
C24_UnitsOnce ==
    \A i, j \in DOMAIN todo : i # j => todo[i] # todo[j]

\* C26: in a UCC run, whenever an article's pages are about to be fetched
\* the connection pool of the fetch client is open (or is opened by entering
\* the scope): no fetch is left to a pool that an earlier scope exit closed.
C26_FetchOnOpenPool ==
    (corpus = "ucc" /\ pc = "fetch") => UCC_ensure_session(session) = "open"

\* C27: the failed-call counter never exceeds the total-call counter.
C27_FailedWithinTotal == stats.failed <= stats.total

\* C28: a start_full_indexing call whose job creation failed sends nothing
\* to the job endpoints: its except-clause makes no backend call and leaves
\* the statuses of every job as they are.
C28_FailedCreateSendsNothing ==
    [][(pc = "start_except" /\ exc = "job_create") =>
          /\ statusLog' = statusLog
          /\ lastResp' = "none"]_vars

\* C29: a processed counter grows only for a record the store accepted: the
\* unit counter only for a unit whose record was created, the division and
\* section counters only when the create call returned success (for a
\* section: the section's own create call), the subsection, definition and
\* cross-reference counters only when the step's create call returned success.
C29_CountsOnlyAccepted ==
    [][/\ stats'.units > stats.units => Logged(<<"unit", 0>>)
       /\ stats'.divs > stats.divs => Success(lastResp')
       /\ stats'.secs > stats.secs => unitSecs[sidx] \in secCreated
       /\ stats'.subs > stats.subs => Success(lastResp')
       /\ stats'.defs > stats.defs => Success(lastResp')
       /\ stats'.xrefs > stats.xrefs => Success(lastResp')]_vars

\* C30: a section create call answered without success sends no child
\* record of that section, and the store routine goes on with the next
\* section of the same unit: the unit is not failed and no error is counted.
C30_SectionFailureConfined ==
    [][(SectionCreateStep /\ ~Success(lastResp')) =>
          /\ pc' = "store"
          /\ idx' = idx
          /\ sidx' = sidx + 1
          /\ failedUnits' = failedUnits
          /\ stats'.errors = stats.errors]_vars

(***************************************************************************)
(* De-duplication of definitions, stated for SpecProc.                     *)
(***************************************************************************)
\* the two terms are equal up to the case of their letters
SameIgnoringCase(s, t) ==
    /\ Len(s) = Len(t)
    /\ \A i \in 1..Len(s) : s[i] = t[i] \/ {s[i], t[i]} = {"a", "A"}

\* C25: the definitions returned hold no two entries whose terms are equal
\* ignoring case; each entry returned is the first one the extraction pass
\* produced for its term, and every term the pass produced is returned.
C25_FirstPerTerm ==
    proc_out.fn = "extract_definitions" =>
        LET out == proc_out.definitions
            produced == cleaned_definitions(proc_in.matches)
        IN
        /\ \A i, j \in DOMAIN out :
              i # j => ~SameIgnoringCase(out[i].term, out[j].term)
        /\ \A i \in DOMAIN out :
              \E k \in DOMAIN produced :
                  /\ produced[k] = out[i]
                  /\ \A h \in 1..(k - 1) : ~SameIgnoringCase(produced[h].term, out[i].term)
        /\ \A k \in DOMAIN produced :
              \E i \in DOMAIN out : SameIgnoringCase(out[i].term, produced[k].term)

\* C25 witness: the pass produced a term three times in different spellings
\* of its case and with different texts; one entry was returned for it.
C25_Witness ==
    /\ proc_out.fn = "extract_definitions"
    /\ Len(proc_in.matches) = 3
    /\ Len(proc_out.definitions) = 1
    /\ proc_in.matches[1][1] # proc_in.matches[2][1]
    /\ proc_in.matches[2][1] # proc_in.matches[3][1]
    /\ proc_in.matches[1][2] # proc_in.matches[2][2]
    /\ Len(cleaned_definitions(proc_in.matches)) = 3

====
